---- MODULE Spec2Model ----
(***************************************************************************)
(* Model of the fraud scoring and anomaly detection engine of              *)
(* backend/analytics.py (FraudDetectionEngine, AnalyticsEngine).           *)
(*                                                                         *)
(* Units.  Money is counted in cents, time in seconds since an epoch that  *)
(* falls on a UTC midnight.  The customer's return_rate and the additive   *)
(* score are modelled by exact rationals; the detectors' rates and the     *)
(* trend averages are modelled in binary64 bit by bit, as the rounding of  *)
(* the fraud-ring average changes the outcome of its comparison.           *)
(***************************************************************************)
EXTENDS Integers, Sequences, FiniteSets, TLC

VARIABLES orders, returns, customers, refunds, now, bundle, out

vars == <<orders, returns, customers, refunds, now, bundle, out>>

(***************************************************************************)
(* Exact rationals [n, d] with d > 0, kept in lowest terms.                *)
(***************************************************************************)
RECURSIVE GCD(_, _)
GCD(a, b) == IF b = 0 THEN a ELSE GCD(b, a % b)

Abs(x) == IF x < 0 THEN -x ELSE x

Rat(n, d) ==
    LET g == GCD(Abs(n), d)
    IN  [n |-> n \div g, d |-> d \div g]

RInt(i) == [n |-> i, d |-> 1]

RAdd(a, b) == Rat(a.n * b.d + b.n * a.d, a.d * b.d)

RMul(a, b) == Rat(a.n * b.n, a.d * b.d)

\* a / b for b > 0
RDiv(a, b) == Rat(a.n * b.d, a.d * b.n)

RLt(a, b) == a.n * b.d < b.n * a.d

RLe(a, b) == a.n * b.d <= b.n * a.d

RGt(a, b) == RLt(b, a)

RGe(a, b) == RLe(b, a)

\* min written as max
RMin_AsMax(a, b) == IF RLe(a, b) THEN b ELSE a

\* Python's min(a, b)
RMin(a, b) == IF RLe(a, b) THEN a ELSE b

Hour == 60 * 60

Day == 24 * Hour

\* an instant on a UTC midnight, far enough from the epoch for every window
T0 == 100 * Day

RECURSIVE SumSeq(_)
SumSeq(s) == IF s = <<>> THEN 0 ELSE Head(s) + SumSeq(Tail(s))

\* Python's [x for x in s if keep(x)], with keep[i] the condition on s[i]:
\* the kept elements in the order of s.
\* The kept elements of s[lo..hi]; the range is halved so that a collection
\* of a thousand documents is walked at a depth of ten.
RECURSIVE KeepFrom(_, _, _, _)
KeepFrom(s, keep, lo, hi) ==
    IF lo > hi THEN <<>>
    ELSE IF lo = hi THEN (IF keep[lo] THEN <<s[lo]>> ELSE <<>>)
    ELSE LET mid == (lo + hi) \div 2
         IN  KeepFrom(s, keep, lo, mid) \o KeepFrom(s, keep, mid + 1, hi)

Keep(s, keep) == KeepFrom(s, keep, 1, Len(s))

(***************************************************************************)
(* FraudDetectionEngine.__init__: the thresholds.                          *)
(***************************************************************************)
RETURN_RATE_THRESHOLD == Rat(3, 10)

\* 500.0 dollars, in cents
HIGH_VALUE_RETURN_THRESHOLD == 50000

FREQUENT_RETURNER_THRESHOLD == 5

RAPID_RETURN_HOURS == 24

SUSPICIOUS_REASON_PATTERNS == <<"changed_mind", "not_as_described">>

\* models.ReturnReason
ReturnReason ==
    {"defective", "size_issue", "not_as_described", "changed_mind",
     "late_delivery", "damaged_shipping", "duplicate_order"}

\* models.RiskLevel
RiskLevel == {"low", "medium", "high", "critical"}

\* The empty dict that _get_customer_analytics_data returns without orders.
EmptyBundle == [empty |-> TRUE]

NoResult == [op |-> "none"]

(***************************************************************************)
(* calculate_fraud_score, lines 33-76: the five contributions, the band    *)
(* and the returned triple.                                                *)
(***************************************************************************)
\* 1. Return Rate Analysis (0-30 points)
ReturnRateTriggered(cd) == RGt(cd.return_rate, RETURN_RATE_THRESHOLD)

ReturnRatePoints(cd) ==
    IF ReturnRateTriggered(cd)
    THEN RMin(RInt(30), RMul(cd.return_rate, RInt(100)))
    ELSE RInt(0)

\* 2. Return Frequency (0-25 points)
\* the trigger written with <
FrequencyTriggered_Flipped(cd) ==
    cd.recent_returns_30d < FREQUENT_RETURNER_THRESHOLD

\* the trigger written with >=
FrequencyTriggered_Inclusive(cd) ==
    cd.recent_returns_30d >= FREQUENT_RETURNER_THRESHOLD

FrequencyTriggered(cd) == cd.recent_returns_30d > FREQUENT_RETURNER_THRESHOLD

FrequencyPoints(cd) ==
    IF FrequencyTriggered(cd)
    THEN RMin(RInt(25), RInt(cd.recent_returns_30d * 4))
    ELSE RInt(0)

\* 3. Return Value Patterns (0-20 points)
ValueTriggered(cd) == RGt(cd.avg_return_value, RInt(HIGH_VALUE_RETURN_THRESHOLD))

ValuePoints(cd) ==
    IF ValueTriggered(cd)
    THEN RMin(RInt(20),
              RMul(RDiv(cd.avg_return_value, RInt(HIGH_VALUE_RETURN_THRESHOLD)),
                   RInt(10)))
    ELSE RInt(0)

\* 4. Rapid Returns (0-15 points)
RapidTriggered(cd) == cd.rapid_returns > 0

RapidPoints(cd) ==
    IF RapidTriggered(cd)
    THEN RMin(RInt(15), RInt(cd.rapid_returns * 7))
    ELSE RInt(0)

\* 5. Suspicious Reason Patterns (0-10 points)
ReasonTriggered(cd) == cd.suspicious_reason_count > 2

ReasonPoints(cd) ==
    IF ReasonTriggered(cd)
    THEN RMin(RInt(10), RInt(cd.suspicious_reason_count * 2))
    ELSE RInt(0)

\* score after the five "score +=" statements
RawScore(cd) ==
    RAdd(RAdd(RAdd(RAdd(ReturnRatePoints(cd), FrequencyPoints(cd)),
                   ValuePoints(cd)),
              RapidPoints(cd)),
         ReasonPoints(cd))

\* the list without the append of the rapid returns factor
Indicators_NoRapid(cd) ==
    (IF ReturnRateTriggered(cd)
     THEN <<[label |-> "High return rate", value |-> cd.return_rate]>> ELSE <<>>)
    \o (IF FrequencyTriggered(cd)
        THEN <<[label |-> "Frequent returner", value |-> RInt(cd.recent_returns_30d)]>>
        ELSE <<>>)
    \o (IF ValueTriggered(cd)
        THEN <<[label |-> "High-value returns", value |-> cd.avg_return_value]>>
        ELSE <<>>)
    \o (IF ReasonTriggered(cd)
        THEN <<[label |-> "Suspicious return reasons",
                value |-> RInt(cd.suspicious_reason_count)]>>
        ELSE <<>>)

\* the indicators list: one entry per triggered factor, in code order; the
\* f-string is kept as its label and the value it formats
Indicators(cd) ==
    (IF ReturnRateTriggered(cd)
     THEN <<[label |-> "High return rate", value |-> cd.return_rate]>> ELSE <<>>)
    \o (IF FrequencyTriggered(cd)
        THEN <<[label |-> "Frequent returner", value |-> RInt(cd.recent_returns_30d)]>>
        ELSE <<>>)
    \o (IF ValueTriggered(cd)
        THEN <<[label |-> "High-value returns", value |-> cd.avg_return_value]>>
        ELSE <<>>)
    \o (IF RapidTriggered(cd)
        THEN <<[label |-> "Rapid returns", value |-> RInt(cd.rapid_returns)]>>
        ELSE <<>>)
    \o (IF ReasonTriggered(cd)
        THEN <<[label |-> "Suspicious return reasons",
                value |-> RInt(cd.suspicious_reason_count)]>>
        ELSE <<>>)

\* the first threshold written with >
BandOf_Exclusive(score) ==
    IF RGt(score, RInt(70)) THEN "critical"
    ELSE IF RGe(score, RInt(50)) THEN "high"
    ELSE IF RGe(score, RInt(25)) THEN "medium"
    ELSE "low"

\* "Determine risk level", applied to the score before the final min
BandOf(score) ==
    IF RGe(score, RInt(70)) THEN "critical"
    ELSE IF RGe(score, RInt(50)) THEN "high"
    ELSE IF RGe(score, RInt(25)) THEN "medium"
    ELSE "low"

\* the triple calculate_fraud_score returns for the bundle customer_data
ScoreOf(cd) ==
    IF cd = EmptyBundle
    THEN [score |-> RInt(0), indicators |-> <<>>, risk_level |-> "low"]
    ELSE [score      |-> RMin(RInt(100), RawScore(cd)),
          indicators |-> Indicators(cd),
          risk_level |-> BandOf(RawScore(cd))]

(***************************************************************************)
(* Scoring on its own: signal bundles the extractor can produce.           *)
(***************************************************************************)
MaxBundleReturns == 7

MaxBundleRapid == 3

MaxBundleSuspicious == 5

\* order counts that put 3, 4 and 7 returns on both sides of the 30% rate
BundleOrderCounts == {1, 10, 24}

\* average refunds in cents around 500, 550, 750 and 1000 dollars
BundleAvgValues ==
    {49995, 50000, 50005, 54995, 55000, 60000, 74995, 75000, 99995, 100000,
     100005}

MinOf(a, b) == IF a <= b THEN a ELSE b

BundleOf(o, r, rec, avg, rap, sus) ==
    [total_orders            |-> o,
     total_returns           |-> r,
     return_rate             |-> Rat(r, o),
     recent_returns_30d      |-> rec,
     avg_return_value        |-> RInt(avg),
     rapid_returns           |-> rap,
     suspicious_reason_count |-> sus]

\* The bundles drawn: the empty one, and for each count of orders and of
\* returns every signal that is at most total_returns; without returns the
\* average refund is 0.
InitScore ==
    /\ orders = <<>>
    /\ returns = <<>>
    /\ customers = <<>>
    /\ refunds = <<>>
    /\ now = T0
    /\ out = NoResult
    /\ \/ bundle = EmptyBundle
       \/ \E o \in BundleOrderCounts : bundle = BundleOf(o, 0, 0, 0, 0, 0)
       \/ \E o \in BundleOrderCounts, r \in 1..MaxBundleReturns :
            \E rec \in 0..r, avg \in BundleAvgValues,
               rap \in 0..MinOf(r, MaxBundleRapid),
               sus \in 0..MinOf(r, MaxBundleSuspicious) :
                bundle = BundleOf(o, r, rec, avg, rap, sus)

\* calculate_fraud_score, from "score = 0.0" on, applied to customer_data
ScoreBundle ==
    /\ out = NoResult
    /\ out' = [op |-> "calculate_fraud_score"] @@ ScoreOf(bundle)
    /\ UNCHANGED <<orders, returns, now, bundle, customers, refunds>>

NextScore == ScoreBundle

SpecScore == InitScore /\ [][NextScore]_vars

(***************************************************************************)
(* Claims about the scoring function, checked under SpecScore.             *)
(***************************************************************************)
Scored == out.op = "calculate_fraud_score"

\* C2: the returned score lies in [0, 100] for every combination of the five
\* signals, the combination that saturates all five factors included.
C2_ScoreInRange ==
    Scored => RLe(RInt(0), out.score) /\ RLe(out.score, RInt(100))

AllSaturated(cd) ==
    /\ cd # EmptyBundle
    /\ RGt(cd.return_rate, Rat(3, 10))
    /\ cd.recent_returns_30d >= 7
    /\ RGe(cd.avg_return_value, RInt(100000))
    /\ cd.rapid_returns >= 3
    /\ cd.suspicious_reason_count >= 5

C2_Witness == Scored /\ AllSaturated(bundle) /\ out.score = RInt(100)

\* C3: raising one signal of the bundle and keeping the other four never
\* lowers the score.
RaisedRates ==
    {Rat(x[2], x[1]) : x \in BundleOrderCounts \X (0..MaxBundleReturns + 1)}

RaisedValues == BundleAvgValues \cup {0, 200000}

RaisedSignals(cd) ==
    {[cd EXCEPT !.return_rate = x] :
        x \in {y \in RaisedRates : RGe(y, cd.return_rate)}}
    \cup {[cd EXCEPT !.recent_returns_30d = x] :
            x \in cd.recent_returns_30d..(MaxBundleReturns + 1)}
    \cup {[cd EXCEPT !.avg_return_value = RInt(x)] :
            x \in {y \in RaisedValues : RGe(RInt(y), cd.avg_return_value)}}
    \cup {[cd EXCEPT !.rapid_returns = x] :
            x \in cd.rapid_returns..(MaxBundleRapid + 1)}
    \cup {[cd EXCEPT !.suspicious_reason_count = x] :
            x \in cd.suspicious_reason_count..(MaxBundleSuspicious + 1)}

C3_Monotone ==
    (Scored /\ bundle # EmptyBundle) =>
        \A cd \in RaisedSignals(bundle) : RLe(out.score, ScoreOf(cd).score)

C3_Witness ==
    /\ Scored
    /\ bundle # EmptyBundle
    /\ bundle.recent_returns_30d = 5
    /\ RLt(out.score, ScoreOf([bundle EXCEPT !.recent_returns_30d = 6]).score)

\* C4: the band is decided by the returned score alone: at least 70 is
\* critical, at least 50 high, at least 25 medium, anything lower low.
C4_BandFromScore ==
    Scored =>
        /\ out.risk_level = "critical" <=> RGe(out.score, RInt(70))
        /\ out.risk_level = "high" <=>
               RGe(out.score, RInt(50)) /\ RLt(out.score, RInt(70))
        /\ out.risk_level = "medium" <=>
               RGe(out.score, RInt(25)) /\ RLt(out.score, RInt(50))
        /\ out.risk_level = "low" <=> RLt(out.score, RInt(25))

\* a score of exactly 70.0, which is critical
C4_Witness == Scored /\ out.score = RInt(70) /\ out.risk_level = "critical"

\* C5: with at least one order the score is the sum of the contributions of
\* the factors whose strict trigger holds; signals (0.4, 4, 600, 1, 3) give 55
\* and band high, and signals exactly at the five thresholds give 0.
TableScore(cd) ==
    LET rate  == IF cd.return_rate.n * 10 > 3 * cd.return_rate.d
                 THEN RMin(RInt(30), Rat(cd.return_rate.n * 100, cd.return_rate.d))
                 ELSE RInt(0)
        freq  == IF cd.recent_returns_30d > 5
                 THEN RInt(MinOf(25, cd.recent_returns_30d * 4)) ELSE RInt(0)
        value == IF cd.avg_return_value.n > 50000 * cd.avg_return_value.d
                 THEN RMin(RInt(20),
                           Rat(cd.avg_return_value.n, cd.avg_return_value.d * 5000))
                 ELSE RInt(0)
        rapid == IF cd.rapid_returns > 0
                 THEN RInt(MinOf(15, cd.rapid_returns * 7)) ELSE RInt(0)
        susp  == IF cd.suspicious_reason_count > 2
                 THEN RInt(MinOf(10, cd.suspicious_reason_count * 2)) ELSE RInt(0)
        total == rate.n * freq.d * value.d * rapid.d * susp.d
                 + freq.n * rate.d * value.d * rapid.d * susp.d
                 + value.n * rate.d * freq.d * rapid.d * susp.d
                 + rapid.n * rate.d * freq.d * value.d * susp.d
                 + susp.n * rate.d * freq.d * value.d * rapid.d
    IN  Rat(total, rate.d * freq.d * value.d * rapid.d * susp.d)

ExampleBundle == BundleOf(10, 4, 4, 60000, 1, 3)

ThresholdBundle == BundleOf(10, 3, 5, 50000, 0, 2)

C5_TableSum ==
    (Scored /\ bundle # EmptyBundle) =>
        /\ out.score = TableScore(bundle)
        /\ bundle = ExampleBundle =>
               out.score = RInt(55) /\ out.risk_level = "high"
        /\ ( /\ bundle.return_rate = Rat(3, 10)
             /\ bundle.recent_returns_30d = 5
             /\ bundle.avg_return_value = RInt(50000)
             /\ bundle.rapid_returns = 0
             /\ bundle.suspicious_reason_count = 2 ) => out.score = RInt(0)

C5_Witness == Scored /\ bundle = ExampleBundle /\ out.score = RInt(55)


(***************************************************************************)
(* The data store: the orders and returns collections in insertion order.  *)
(* An order document may lack the key updated_at (models.Order has no such *)
(* field); documents are records and a missing key is a missing field.     *)
(***************************************************************************)
EmailOf(c) == <<c, "@example.com">>

NameOf(p) == <<"name of", p>>

Order(id, c, status, date, addr, items) ==
    [id |-> id, customer_id |-> c, customer_email |-> EmailOf(c),
     items |-> items, total_amount |-> 2500 * Len(items), order_date |-> date,
     status |-> status, shipping_address |-> addr]

Return(id, oid, c, p, reason, date, amount, fraud) ==
    [id |-> id, order_id |-> oid, customer_id |-> c,
     customer_email |-> EmailOf(c), product_id |-> p, product_name |-> NameOf(p),
     reason |-> reason, return_date |-> date, refund_amount |-> amount,
     is_fraud_suspected |-> fraud]

\* dict.get(key, default)
Get(doc, key, default) == IF key \in DOMAIN doc THEN doc[key] ELSE default

\* cursor.to_list(n): at most the first n documents
to_list(s, n) == SubSeq(s, 1, MinOf(Len(s), n))

\* collection.find({"customer_id": customer_id})
FindByCustomer(coll, customer_id) ==
    Keep(coll, [i \in DOMAIN coll |-> coll[i].customer_id = customer_id])

\* collection.count_documents({"customer_id": customer_id})
CountByCustomer(coll, customer_id) == Len(FindByCustomer(coll, customer_id))

(***************************************************************************)
(* _get_customer_analytics_data, lines 78-122.                             *)
(***************************************************************************)
FIND_CAP == 1000

NoOrder == [missing |-> TRUE]

\* next((o for o in orders if o['id'] == ret['order_id']), None)
MatchingOrder(ret, ords) ==
    LET hits == Keep(ords, [i \in DOMAIN ords |-> ords[i].id = ret.order_id])
    IN  IF hits = <<>> THEN NoOrder ELSE Head(hits)

\* the 24 hour limit written with <
IsRapidReturn_Exclusive(ret, ords) ==
    LET order == MatchingOrder(ret, ords)
    IN  /\ order # NoOrder
        /\ order.status = "delivered"
        /\ LET delivery_date == Get(order, "updated_at", order.order_date)
           IN  ret.return_date < delivery_date + RAPID_RETURN_HOURS * Hour

\* the body of "for ret in returns": does ret add one to rapid_returns
IsRapidReturn(ret, ords) ==
    LET order == MatchingOrder(ret, ords)
    IN  /\ order # NoOrder
        /\ order.status = "delivered"
        /\ LET delivery_date == Get(order, "updated_at", order.order_date)
           IN  ret.return_date <= delivery_date + RAPID_RETURN_HOURS * Hour

CountReason(rets, reason) ==
    Len(Keep(rets, [i \in DOMAIN rets |-> rets[i].reason = reason]))

\* the dict with the 30 day window written with >
CustomerSignals_ExclusiveWindow(ords, rets) ==
    LET total_orders == Len(ords)
        total_returns == Len(rets)
        thirty_days_ago == now - 30 * Day
        return_values == [i \in DOMAIN rets |-> rets[i].refund_amount]
    IN  [total_orders  |-> total_orders,
         total_returns |-> total_returns,
         return_rate   |-> IF total_orders > 0
                           THEN Rat(total_returns, total_orders)
                           ELSE RInt(0),
         recent_returns_30d |->
             Len(Keep(rets, [i \in DOMAIN rets |->
                                rets[i].return_date > thirty_days_ago])),
         avg_return_value |->
             IF return_values # <<>>
             THEN Rat(SumSeq(return_values), Len(return_values))
             ELSE RInt(0),
         rapid_returns |->
             Len(Keep(rets, [i \in DOMAIN rets |-> IsRapidReturn(rets[i], ords)])),
         suspicious_reason_count |->
             SumSeq([i \in DOMAIN SUSPICIOUS_REASON_PATTERNS |->
                        CountReason(rets, SUSPICIOUS_REASON_PATTERNS[i])])]

\* the dict built from the fetched orders and returns, lines 88-122
CustomerSignals(ords, rets) ==
    LET total_orders == Len(ords)
        total_returns == Len(rets)
        thirty_days_ago == now - 30 * Day
        return_values == [i \in DOMAIN rets |-> rets[i].refund_amount]
    IN  [total_orders  |-> total_orders,
         total_returns |-> total_returns,
         return_rate   |-> IF total_orders > 0
                           THEN Rat(total_returns, total_orders)
                           ELSE RInt(0),
         recent_returns_30d |->
             Len(Keep(rets, [i \in DOMAIN rets |->
                                rets[i].return_date >= thirty_days_ago])),
         avg_return_value |->
             IF return_values # <<>>
             THEN Rat(SumSeq(return_values), Len(return_values))
             ELSE RInt(0),
         rapid_returns |->
             Len(Keep(rets, [i \in DOMAIN rets |-> IsRapidReturn(rets[i], ords)])),
         suspicious_reason_count |->
             SumSeq([i \in DOMAIN SUSPICIOUS_REASON_PATTERNS |->
                        CountReason(rets, SUSPICIOUS_REASON_PATTERNS[i])])]

\* the extraction without "if not orders: return {}"
_get_customer_analytics_data_Unguarded(customer_id) ==
    CustomerSignals(to_list(FindByCustomer(orders, customer_id), FIND_CAP),
                    to_list(FindByCustomer(returns, customer_id), FIND_CAP))

_get_customer_analytics_data(customer_id) ==
    LET ords == to_list(FindByCustomer(orders, customer_id), FIND_CAP)
        rets == to_list(FindByCustomer(returns, customer_id), FIND_CAP)
    IN  IF ords = <<>> THEN EmptyBundle ELSE CustomerSignals(ords, rets)

\* calculate_fraud_score(customer_id): the extraction, then the scoring
calculate_fraud_score(customer_id) ==
    ScoreOf(_get_customer_analytics_data(customer_id))

(***************************************************************************)
(* Writers of the store (the order management side) and the engine calls.  *)
(* A write discards the result of the previous call.                       *)
(***************************************************************************)
InsertOrder(o) ==
    /\ orders' = Append(orders, o)
    /\ out' = NoResult
    /\ bundle' = EmptyBundle
    /\ UNCHANGED <<returns, now, customers, refunds>>

InsertReturn(r) ==
    /\ returns' = Append(returns, r)
    /\ out' = NoResult
    /\ bundle' = EmptyBundle
    /\ UNCHANGED <<orders, now, customers, refunds>>

CalculateFraudScore(customer_id) ==
    /\ bundle' = _get_customer_analytics_data(customer_id)
    /\ out' = [op |-> "calculate_fraud_score", customer_id |-> customer_id]
              @@ calculate_fraud_score(customer_id)
    /\ UNCHANGED <<orders, returns, now, customers, refunds>>

(***************************************************************************)
(* Signal extraction: one customer under study, c1, and another one, c2.   *)
(* Orders are placed at T0; a delivered order may carry updated_at one     *)
(* hour later.  Returns are dated around the 24 hour limit of either.      *)
(***************************************************************************)
MaxExtractOrders == 2

MaxExtractReturns == 2

ExtractCustomers == {"c1", "c2"}

\* an order id that no order of the store carries
UnknownOrderId == 0

ExtractOrders(id) ==
    {Order(id, "c1", "delivered", T0, "a1", <<"p1">>),
     Order(id, "c1", "delivered", T0, "a1", <<"p1">>) @@ [updated_at |-> T0 + Hour],
     Order(id, "c1", "shipped", T0, "a1", <<"p1">>),
     Order(id, "c2", "delivered", T0, "a1", <<"p1">>)}

ExtractReturnDates ==
    {T0 + 24 * Hour, T0 + 24 * Hour + 1, T0 + 25 * Hour, T0 + 25 * Hour + 1}

ExtractReturns(id) ==
    {Return(id, oid, "c1", "p1", "changed_mind", d, 60000, FALSE) :
        oid \in {UnknownOrderId} \cup (1..Len(orders)), d \in ExtractReturnDates}

InitExtract ==
    /\ orders = <<>>
    /\ returns = <<>>
    /\ customers = <<>>
    /\ refunds = <<>>
    /\ now \in {T0 + 31 * Day, T0 + 31 * Day + 1}
    /\ bundle = EmptyBundle
    /\ out = NoResult

NextExtract ==
    \/ /\ Len(orders) < MaxExtractOrders
       /\ \E o \in ExtractOrders(Len(orders) + 1) : InsertOrder(o)
    \/ /\ Len(returns) < MaxExtractReturns
       /\ \E r \in ExtractReturns(Len(returns) + 1) : InsertReturn(r)
    \/ \E c \in ExtractCustomers : CalculateFraudScore(c)

SpecExtract == InitExtract /\ [][NextExtract]_vars

(***************************************************************************)
(* Claims about the extraction, checked under SpecExtract.                 *)
(***************************************************************************)
\* C1: a customer without orders in the store scores 0 with no indicators and
\* band low, whatever returns the store holds for that customer.
C1_NoOrders ==
    (Scored /\ CountByCustomer(orders, out.customer_id) = 0) =>
        /\ out.score = RInt(0)
        /\ out.indicators = <<>>
        /\ out.risk_level = "low"

C1_Witness ==
    /\ Scored
    /\ CountByCustomer(orders, out.customer_id) = 0
    /\ CountByCustomer(returns, out.customer_id) > 0
    /\ orders # <<>>
    /\ out.score = RInt(0)

\* C7: a return is rapid exactly when its order, found by order_id among the
\* customer's own orders, is delivered and the return is dated at most 24
\* hours after updated_at, or after order_date when the order has no
\* updated_at; 24h00m00s counts and 24h00m01s does not.
StatedRapid(r, c) ==
    /\ returns[r].customer_id = c
    /\ \E o \in 1..Len(orders) :
        /\ orders[o].customer_id = c
        /\ orders[o].id = returns[r].order_id
        /\ orders[o].status = "delivered"
        /\ returns[r].return_date <=
               (IF "updated_at" \in DOMAIN orders[o]
                THEN orders[o].updated_at ELSE orders[o].order_date) + 86400

C7_RapidCount ==
    (Scored /\ bundle # EmptyBundle) =>
        bundle.rapid_returns =
            Cardinality({r \in 1..Len(returns) : StatedRapid(r, out.customer_id)})

\* two returns on one delivered order without updated_at, one dated exactly 24
\* hours after the order and counted, one dated a second later and not counted
C7_Witness ==
    /\ Scored
    /\ bundle # EmptyBundle
    /\ bundle.rapid_returns = 1
    /\ Len(returns) = 2
    /\ \E o \in 1..Len(orders) :
        /\ orders[o].customer_id = out.customer_id
        /\ orders[o].status = "delivered"
        /\ "updated_at" \notin DOMAIN orders[o]
        /\ returns[1].order_id = orders[o].id
        /\ returns[2].order_id = orders[o].id
        /\ returns[1].return_date = orders[o].order_date + 86400
        /\ returns[2].return_date = orders[o].order_date + 86401

(***************************************************************************)
(* IEEE 754 binary64, round to nearest, ties to even, for positive values: *)
(* [e, m] is 1.m[2]m[3]...m[53] * 2^e with m[1] = 1, and F64Zero is 0.     *)
(* Enough of it for a / b on ints, x + y and x / n on floats and x > y.    *)
(***************************************************************************)
F64_PRECISION == 53

F64Zero == [e |-> 0, m |-> <<>>]

Zeros(n) == [i \in 1..n |-> 0]

\* bits + 1, with the carry out of the first bit
IncBits(bits) ==
    LET zeros == {i \in 1..Len(bits) : bits[i] = 0}
    IN  IF zeros = {} THEN [bits |-> Zeros(Len(bits)), c |-> 1]
        ELSE LET z == CHOOSE i \in zeros : \A j \in zeros : j <= i
             IN  [bits |-> [i \in 1..Len(bits) |->
                              IF i < z THEN bits[i] ELSE IF i = z THEN 1 ELSE 0],
                  c    |-> 0]

\* the binary64 nearest to 1.bits[2]bits[3]... * 2^e, where sticky tells that
\* the exact value has further nonzero bits after the last of bits
F64Round(bits, sticky, e) ==
    IF Len(bits) <= F64_PRECISION
    THEN [e |-> e, m |-> bits \o Zeros(F64_PRECISION - Len(bits))]
    ELSE LET keep  == SubSeq(bits, 1, F64_PRECISION)
             guard == bits[F64_PRECISION + 1]
             rest  == sticky \/ \E i \in (F64_PRECISION + 2)..Len(bits) : bits[i] = 1
             up    == guard = 1 /\ (rest \/ keep[F64_PRECISION] = 1)
             inc   == IncBits(keep)
         IN  IF ~up THEN [e |-> e, m |-> keep]
             ELSE IF inc.c = 0 THEN [e |-> e, m |-> inc.bits]
             ELSE [e |-> e + 1, m |-> <<1>> \o Zeros(F64_PRECISION - 1)]

\* 2^k modulo d, by repeated squaring
RECURSIVE Pow2Mod(_, _)
Pow2Mod(k, d) ==
    IF k = 0 THEN 1 % d
    ELSE LET h == Pow2Mod(k \div 2, d)
         IN  (((h * h) % d) * (IF k % 2 = 1 THEN 2 ELSE 1)) % d

\* the first k quotient bits of r / d after the point, r < d, and the
\* remainder left; the remainder before bit i is r * 2^(i-1) modulo d
DivBits(r, d, k) ==
    [bits |-> [i \in 1..k |->
                 IF 2 * ((r * Pow2Mod(i - 1, d)) % d) >= d THEN 1 ELSE 0],
     r    |-> (r * Pow2Mod(k, d)) % d]

\* the e with 2^e <= a / b < 2^(e+1), for a, b > 0
RECURSIVE Log2Floor(_, _)
Log2Floor(a, b) ==
    IF a < b THEN Log2Floor(2 * a, b) - 1
    ELSE IF a >= 2 * b THEN Log2Floor(a, 2 * b) + 1
    ELSE 0

RECURSIVE Pow2(_)
Pow2(n) == IF n = 0 THEN 1 ELSE 2 * Pow2(n - 1)

\* a / b on Python ints, a >= 0, b > 0: the correctly rounded quotient
F64DivInt(a, b) ==
    IF a = 0 THEN F64Zero
    ELSE LET e  == Log2Floor(a, b)
             n0 == IF e < 0 THEN a * Pow2(-e) ELSE a
             d0 == IF e > 0 THEN b * Pow2(e) ELSE b
             q  == DivBits(n0 - d0, d0, F64_PRECISION)
         IN  F64Round(<<1>> \o q.bits, q.r # 0, e)

\* the carry into bit i of p + q on bit strings of equal length: some later
\* bit generates one and every bit in between passes it on
CarryInto(p, q, i) ==
    \E j \in (i + 1)..Len(p) :
        /\ p[j] + q[j] = 2
        /\ \A k \in (i + 1)..(j - 1) : p[k] + q[k] >= 1

\* p + q on bit strings of equal length, with the carry out of the first bit
AddBits(p, q) ==
    [bits |-> [i \in 1..Len(p) |->
                 (p[i] + q[i] + IF CarryInto(p, q, i) THEN 1 ELSE 0) % 2],
     c    |-> IF CarryInto(p, q, 0) THEN 1 ELSE 0]

F64Add(x, y) ==
    IF x = F64Zero THEN y
    ELSE IF y = F64Zero THEN x
    ELSE LET hi    == IF x.e >= y.e THEN x ELSE y
             lo    == IF x.e >= y.e THEN y ELSE x
             shift == hi.e - lo.e
             sum   == AddBits(hi.m \o Zeros(shift), Zeros(shift) \o lo.m)
         IN  IF sum.c = 1 THEN F64Round(<<1>> \o sum.bits, FALSE, hi.e + 1)
             ELSE F64Round(sum.bits, FALSE, hi.e)

\* the number written by bits[lo..hi], modulo n
RECURSIVE BitsMod(_, _, _, _)
BitsMod(bits, lo, hi, n) ==
    IF lo > hi THEN 0
    ELSE IF lo = hi THEN bits[lo] % n
    ELSE LET mid == (lo + hi) \div 2
         IN  (BitsMod(bits, lo, mid, n) * Pow2Mod(hi - mid, n)
              + BitsMod(bits, mid + 1, hi, n)) % n

\* the quotient bits of the bit string by n, one per bit, and the remainder
LongDiv(bits, n) ==
    [bits |-> [i \in 1..Len(bits) |->
                 IF 2 * BitsMod(bits, 1, i - 1, n) + bits[i] >= n THEN 1 ELSE 0],
     r    |-> BitsMod(bits, 1, Len(bits), n)]

LeadingZeros(bits) ==
    IF \A i \in 1..Len(bits) : bits[i] = 0 THEN Len(bits)
    ELSE (CHOOSE i \in 1..Len(bits) :
              bits[i] = 1 /\ \A j \in 1..(i - 1) : bits[j] = 0) - 1

\* extra dividend bits in x / n, enough for n < 2^10
F64_DIV_EXTRA == 12

\* x / n for a float x and a Python int n > 0
F64DivByInt(x, n) ==
    IF x = F64Zero THEN F64Zero
    ELSE LET q == LongDiv(x.m \o Zeros(F64_DIV_EXTRA), n)
             z == LeadingZeros(q.bits)
         IN  F64Round(SubSeq(q.bits, z + 1, Len(q.bits)), q.r # 0, x.e - z)

\* x > y
F64Gt(x, y) ==
    IF x = F64Zero THEN FALSE
    ELSE IF y = F64Zero THEN TRUE
    ELSE \/ x.e > y.e
         \/ /\ x.e = y.e
            /\ \E i \in 1..F64_PRECISION :
                /\ x.m[i] > y.m[i]
                /\ \A j \in 1..(i - 1) : x.m[j] = y.m[j]

\* sum(xs) for a list of floats: 0 + xs[1] + xs[2] + ..., left to right
RECURSIVE F64Sum(_)
F64Sum(xs) ==
    IF xs = <<>> THEN F64Zero
    ELSE F64Add(F64Sum(SubSeq(xs, 1, Len(xs) - 1)), xs[Len(xs)])

(***************************************************************************)
(* The aggregation pipelines.  $group emits one document per key; the      *)
(* groups are taken in the order in which their keys first occur.          *)
(***************************************************************************)
\* the distinct elements of s in the order of their first occurrence
\* ($group keys, $addToSet)
RECURSIVE DistinctFrom(_, _, _)
DistinctFrom(s, i, seen) ==
    IF i > Len(s) THEN <<>>
    ELSE IF s[i] \in seen THEN DistinctFrom(s, i + 1, seen)
         ELSE <<s[i]>> \o DistinctFrom(s, i + 1, seen \cup {s[i]})

Distinct(s) == DistinctFrom(s, 1, {})

\* to_list(100) on the three detector pipelines
AGGREGATE_CAP == 100

(***************************************************************************)
(* _detect_mass_return_events, lines 143-177.                              *)
(***************************************************************************)
MASS_RETURN_DAYS == 7

MASS_RETURN_MIN_COUNT == 3

\* {"$match": {"return_date": {"$gte": seven_days_ago}}}
MassMatched ==
    LET seven_days_ago == now - MASS_RETURN_DAYS * Day
    IN  Keep(returns, [i \in DOMAIN returns |->
                          returns[i].return_date >= seven_days_ago])

\* the $group stage for one customer_id
MassGroup(matched, c) ==
    LET docs == Keep(matched, [i \in DOMAIN matched |-> matched[i].customer_id = c])
    IN  [_id            |-> c,
         return_count   |-> Len(docs),
         total_refund   |-> SumSeq([i \in DOMAIN docs |-> docs[i].refund_amount]),
         customer_email |-> docs[1].customer_email]

\* the pipeline and to_list(100)
MassResults ==
    LET matched == MassMatched
        keys    == Distinct([i \in DOMAIN matched |-> matched[i].customer_id])
        groups  == [i \in DOMAIN keys |-> MassGroup(matched, keys[i])]
    IN  to_list(Keep(groups, [i \in DOMAIN groups |->
                                 groups[i].return_count >= MASS_RETURN_MIN_COUNT]),
                AGGREGATE_CAP)

MassPattern(result) ==
    [customer_id  |-> result._id,
     pattern_type |-> "mass_return_event",
     severity     |-> "high",
     evidence     |-> [return_count_7d |-> result.return_count,
                       total_refund_7d |-> result.total_refund,
                       customer_email  |-> result.customer_email]]

_detect_mass_return_events ==
    LET results == MassResults
    IN  [i \in DOMAIN results |-> MassPattern(results[i])]

DetectMassReturnEvents ==
    /\ out' = [op |-> "_detect_mass_return_events",
               patterns |-> _detect_mass_return_events]
    /\ bundle' = EmptyBundle
    /\ UNCHANGED <<orders, returns, now, customers, refunds>>

(***************************************************************************)
(* Mass returns: two customers order shortly before or during the last     *)
(* week; a delivered order is returned at most once, one or two days after *)
(* the order (data_generator dates a return 1 to 30 days after its order,  *)
(* so a return of a recent order may be dated after now).                  *)
(***************************************************************************)
MaxMassOrders == 3

MassCustomers == {"c1", "c2"}

MassNow == T0 + 7 * Day

MassOrderDates == {T0 - Day - 1, T0 + 6 * Day}

MassReturnDelays == {Day, 2 * Day}

MassOrders(id) ==
    {Order(id, c, "delivered", d, "a1", <<"p1">>) :
        c \in MassCustomers, d \in MassOrderDates}

Returned(oid) == \E i \in DOMAIN returns : returns[i].order_id = oid

MassReturns(id) ==
    {Return(id, orders[o].id, orders[o].customer_id, "p1", "defective",
            orders[o].order_date + delay, 2500, FALSE) :
        o \in {x \in DOMAIN orders : ~Returned(orders[x].id)},
        delay \in MassReturnDelays}

InitMass ==
    /\ orders = <<>>
    /\ returns = <<>>
    /\ customers = <<>>
    /\ refunds = <<>>
    /\ now \in {MassNow - 1, MassNow}
    /\ bundle = EmptyBundle
    /\ out = NoResult

NextMass ==
    \/ /\ Len(orders) < MaxMassOrders
       /\ \E o \in MassOrders(Len(orders) + 1) : InsertOrder(o)
    \/ \E r \in MassReturns(Len(returns) + 1) : InsertReturn(r)
    \/ DetectMassReturnEvents

SpecMass == InitMass /\ [][NextMass]_vars

\* C6: a customer gets a mass_return_event pattern exactly when the customer
\* has at least 3 returns dated between now minus 7 days and now, and then
\* gets exactly one.
ReturnsInTrailingWeek(c) ==
    Cardinality({i \in DOMAIN returns :
                    /\ returns[i].customer_id = c
                    /\ returns[i].return_date >= now - 7 * 86400
                    /\ returns[i].return_date <= now})

MassPatternsFor(c) ==
    Cardinality({i \in DOMAIN out.patterns : out.patterns[i].customer_id = c})

C6_MassIff ==
    out.op = "_detect_mass_return_events" =>
        \A c \in MassCustomers :
            MassPatternsFor(c) = (IF ReturnsInTrailingWeek(c) >= 3 THEN 1 ELSE 0)

(***************************************************************************)
(* _detect_potential_fraud_rings, lines 179-225.  The rates and their      *)
(* average are Python floats, so they are computed in binary64.            *)
(***************************************************************************)
RING_MIN_CUSTOMERS == 3

\* the literal 0.2
RING_RETURN_RATE_THRESHOLD == F64DivInt(1, 5)

\* the $group stage for one shipping_address
RingGroup(a) ==
    LET docs == Keep(orders, [i \in DOMAIN orders |-> orders[i].shipping_address = a])
    IN  [_id             |-> a,
         customers       |-> Distinct([i \in DOMAIN docs |-> docs[i].customer_id]),
         customer_emails |-> Distinct([i \in DOMAIN docs |-> docs[i].customer_email]),
         order_count     |-> Len(docs)]

\* the pipeline and to_list(100)
RingResults ==
    LET keys   == Distinct([i \in DOMAIN orders |-> orders[i].shipping_address])
        groups == [i \in DOMAIN keys |-> RingGroup(keys[i])]
    IN  to_list(Keep(groups, [i \in DOMAIN groups |->
                                Len(groups[i].customers) >= RING_MIN_CUSTOMERS]),
                AGGREGATE_CAP)

\* customer_returns / customer_orders if customer_orders > 0 else 0
RingReturnRate(customer_id) ==
    LET customer_returns == CountByCustomer(returns, customer_id)
        customer_orders  == CountByCustomer(orders, customer_id)
    IN  IF customer_orders > 0 THEN F64DivInt(customer_returns, customer_orders)
        ELSE F64Zero

\* sum(return_counts) / len(return_counts)
RingAvgReturnRate(customer_ids) ==
    LET return_counts == [i \in DOMAIN customer_ids |-> RingReturnRate(customer_ids[i])]
    IN  F64DivByInt(F64Sum(return_counts), Len(return_counts))

RingPattern(result, avg_return_rate) ==
    [customer_id  |-> result.customers[1],
     pattern_type |-> "potential_fraud_ring",
     severity     |-> "critical",
     evidence     |-> [shared_address  |-> result._id,
                       customer_count  |-> Len(result.customers),
                       avg_return_rate |-> avg_return_rate,
                       customer_emails |-> result.customer_emails]]

_detect_potential_fraud_rings ==
    LET results == RingResults
        avgs    == [i \in DOMAIN results |-> RingAvgReturnRate(results[i].customers)]
        all     == [i \in DOMAIN results |-> RingPattern(results[i], avgs[i])]
    IN  Keep(all, [i \in DOMAIN results |->
                      F64Gt(avgs[i], RING_RETURN_RATE_THRESHOLD)])

DetectPotentialFraudRings ==
    /\ out' = [op |-> "_detect_potential_fraud_rings",
               patterns |-> _detect_potential_fraud_rings]
    /\ bundle' = EmptyBundle
    /\ UNCHANGED <<orders, returns, now, customers, refunds>>

\* insert_many(batch) on the returns collection
InsertReturns(batch) ==
    /\ returns' = returns \o batch
    /\ out' = NoResult
    /\ bundle' = EmptyBundle
    /\ UNCHANGED <<orders, now, customers, refunds>>

\* insert_many(batch) on the orders collection
InsertOrders(batch) ==
    /\ orders' = orders \o batch
    /\ out' = NoResult
    /\ bundle' = EmptyBundle
    /\ UNCHANGED <<returns, now, customers, refunds>>

(***************************************************************************)
(* Fraud rings: three customers, one after the other, each place their     *)
(* orders in one batch of one or five orders, at a shared address or with  *)
(* the first order elsewhere; a delivered order is returned at most once.  *)
(***************************************************************************)
MaxRingReturns == 3

RingCustomers == <<"c1", "c2", "c3">>

RingAddresses == {"a1", "a2"}

RingBatchShapes ==
    {<<"a1">>, <<"a2">>,
     <<"a1", "a1", "a1", "a1", "a1">>, <<"a2", "a1", "a1", "a1", "a1">>}

RingBatch(c, shape) ==
    [i \in DOMAIN shape |->
        Order(Len(orders) + i, c, "delivered", T0, shape[i], <<"p1">>)]

\* the customers that have placed their batch
RingArrived == Len(Distinct([i \in DOMAIN orders |-> orders[i].customer_id]))

\* the return of the customer's first order not yet returned
RingReturns(id) ==
    {Return(id, orders[o].id, orders[o].customer_id, "p1", "defective",
            T0 + Day, 2500, FALSE) :
        o \in {x \in DOMAIN orders :
                  /\ ~Returned(orders[x].id)
                  /\ \A y \in 1..(x - 1) :
                        orders[y].customer_id = orders[x].customer_id
                            => Returned(orders[y].id)}}

InitRing ==
    /\ orders = <<>>
    /\ returns = <<>>
    /\ customers = <<>>
    /\ refunds = <<>>
    /\ now = T0 + 2 * Day
    /\ bundle = EmptyBundle
    /\ out = NoResult

NextRing ==
    \/ /\ RingArrived < Len(RingCustomers)
       /\ \E shape \in RingBatchShapes :
             InsertOrders(RingBatch(RingCustomers[RingArrived + 1], shape))
    \/ /\ Len(returns) < MaxRingReturns
       /\ \E r \in RingReturns(Len(returns) + 1) : InsertReturn(r)
    \/ DetectPotentialFraudRings

SpecRing == InitRing /\ [][NextRing]_vars

\* the customers with an order at the address
CustomersAt(a) ==
    {orders[i].customer_id : i \in {x \in DOMAIN orders : orders[x].shipping_address = a}}

\* the sum over the customers of returns / orders, as a fraction
RECURSIVE SumOfRates(_)
SumOfRates(cs) ==
    IF cs = {} THEN RInt(0)
    ELSE LET c == CHOOSE x \in cs : TRUE
         IN  RAdd(Rat(CountByCustomer(returns, c), CountByCustomer(orders, c)),
                  SumOfRates(cs \ {c}))

RingPatternsFor(a) ==
    Cardinality({i \in DOMAIN out.patterns : out.patterns[i].evidence.shared_address = a})

\* C8: an address gets a potential_fraud_ring pattern exactly when at least 3
\* distinct customers have orders with it and the average of their return
\* rates (returns / orders of the customer) is strictly greater than 0.20.
C8_RingIff ==
    out.op = "_detect_potential_fraud_rings" =>
        \A a \in RingAddresses :
            RingPatternsFor(a) =
                (IF /\ Cardinality(CustomersAt(a)) >= 3
                    /\ RGt(RDiv(SumOfRates(CustomersAt(a)),
                                RInt(Cardinality(CustomersAt(a)))),
                           Rat(1, 5))
                 THEN 1 ELSE 0)

(***************************************************************************)
(* _detect_product_return_abuse, lines 227-270.  An order's items are its  *)
(* line items, each given by its product_id.                               *)
(***************************************************************************)
PRODUCT_MIN_RETURNS == 5

\* the literal 0.4
PRODUCT_RETURN_RATE_THRESHOLD == F64DivInt(2, 5)

\* the $group stage for one product_id
ProductGroup(p) ==
    LET docs == Keep(returns, [i \in DOMAIN returns |-> returns[i].product_id = p])
    IN  [_id          |-> p,
         return_count |-> Len(docs),
         product_name |-> docs[1].product_name,
         customers    |-> Distinct([i \in DOMAIN docs |-> docs[i].customer_id]),
         avg_refund   |-> Rat(SumSeq([i \in DOMAIN docs |-> docs[i].refund_amount]),
                              Len(docs))]

\* the pipeline and to_list(100)
ProductResults ==
    LET keys   == Distinct([i \in DOMAIN returns |-> returns[i].product_id])
        groups == [i \in DOMAIN keys |-> ProductGroup(keys[i])]
    IN  to_list(Keep(groups, [i \in DOMAIN groups |->
                                groups[i].return_count >= PRODUCT_MIN_RETURNS]),
                AGGREGATE_CAP)

\* a mistaken count: one per line item with the product
ProductOrderCount_LineItems(p) ==
    SumSeq([i \in DOMAIN orders |->
               Cardinality({j \in DOMAIN orders[i].items : orders[i].items[j] = p})])

\* orders.count_documents({"items.product_id": p}): the orders with the
\* product in some line item
ProductOrderCount(p) ==
    Len(Keep(orders, [i \in DOMAIN orders |->
                         \E j \in DOMAIN orders[i].items : orders[i].items[j] = p]))

\* result['return_count'] / total_orders if total_orders > 0 else 0
ProductReturnRate(result) ==
    LET total_orders == ProductOrderCount(result._id)
    IN  IF total_orders > 0 THEN F64DivInt(result.return_count, total_orders)
        ELSE F64Zero

ProductPattern(result) ==
    [customer_id  |-> "SYSTEM",
     pattern_type |-> "product_return_abuse",
     severity     |-> "high",
     evidence     |-> [product_id       |-> result._id,
                       product_name     |-> result.product_name,
                       return_rate      |-> ProductReturnRate(result),
                       return_count     |-> result.return_count,
                       unique_customers |-> Len(result.customers),
                       avg_refund       |-> result.avg_refund]]

_detect_product_return_abuse ==
    LET results == ProductResults
    IN  Keep([i \in DOMAIN results |-> ProductPattern(results[i])],
             [i \in DOMAIN results |->
                 F64Gt(ProductReturnRate(results[i]), PRODUCT_RETURN_RATE_THRESHOLD)])

DetectProductReturnAbuse ==
    /\ out' = [op |-> "_detect_product_return_abuse",
               patterns |-> _detect_product_return_abuse]
    /\ bundle' = EmptyBundle
    /\ UNCHANGED <<orders, returns, now, customers, refunds>>

(***************************************************************************)
(* Product abuse: orders arrive in batches of one or five equal orders,    *)
(* with p1 in one or in three line items, or with p2 alone; a line item is *)
(* returned at most once, and p3 is returned although no order holds it.   *)
(***************************************************************************)
MaxProductBatches == 3

MaxProductReturns == 6

ProductBatchSizes == {1, 5}

ProductItemShapes == {<<"p1">>, <<"p1", "p1", "p1">>, <<"p2">>}

ProductCustomers == <<"c1", "c2">>

Products == {"p1", "p2", "p3"}

ProductBatch(n, items) ==
    [i \in 1..n |->
        Order(Len(orders) + i, ProductCustomers[1 + (i % 2)], "delivered", T0,
              "a1", items)]

\* the batches inserted so far, told by the first order of each
ProductBatches ==
    Cardinality({i \in DOMAIN orders :
                    i = 1 \/ orders[i].items # orders[i - 1].items
                          \/ orders[i].customer_id = orders[i - 1].customer_id})

LineItems(o, p) == Cardinality({j \in DOMAIN o.items : o.items[j] = p})

ReturnedItems(o, p) ==
    Cardinality({i \in DOMAIN returns :
                    returns[i].order_id = o.id /\ returns[i].product_id = p})

\* the return of the first line item with p1 not yet returned, and a return
\* of p3 against an order the store does not hold
ProductReturns(id) ==
    {Return(id, orders[o].id, orders[o].customer_id, "p1", "defective",
            T0 + Day, 2500, FALSE) :
        o \in {x \in DOMAIN orders :
                  /\ ReturnedItems(orders[x], "p1") < LineItems(orders[x], "p1")
                  /\ \A y \in 1..(x - 1) :
                        ReturnedItems(orders[y], "p1") = LineItems(orders[y], "p1")}}
    \cup {Return(id, UnknownOrderId, "c1", "p3", "defective", T0 + Day, 2500, FALSE)}

InitProduct ==
    /\ orders = <<>>
    /\ returns = <<>>
    /\ customers = <<>>
    /\ refunds = <<>>
    /\ now = T0 + 2 * Day
    /\ bundle = EmptyBundle
    /\ out = NoResult

NextProduct ==
    \/ /\ ProductBatches < MaxProductBatches
       /\ \E n \in ProductBatchSizes, items \in ProductItemShapes :
             InsertOrders(ProductBatch(n, items))
    \/ /\ Len(returns) < MaxProductReturns
       /\ \E r \in ProductReturns(Len(returns) + 1) : InsertReturn(r)
    \/ DetectProductReturnAbuse

SpecProduct == InitProduct /\ [][NextProduct]_vars

ProductPatternsFor(p) ==
    Cardinality({i \in DOMAIN out.patterns : out.patterns[i].evidence.product_id = p})

ReturnsOf(p) == Cardinality({i \in DOMAIN returns : returns[i].product_id = p})

OrdersHolding(p) ==
    Cardinality({i \in DOMAIN orders :
                    \E j \in DOMAIN orders[i].items : orders[i].items[j] = p})

LineItemsHolding(p) ==
    Cardinality(UNION {{<<i, j>> : j \in {k \in DOMAIN orders[i].items :
                                            orders[i].items[k] = p}} :
                       i \in DOMAIN orders})

DayOf(date) == date \div Day

\* the elements of a set of numbers in ascending order
RECURSIVE Ascending(_)
Ascending(S) ==
    IF S = {} THEN <<>>
    ELSE LET least == CHOOSE x \in S : \A y \in S : x <= y
         IN  <<least>> \o Ascending(S \ {least})

\* {"$match": {"return_date": {"$gte": start_date, "$lte": end_date}}}
TrendMatched(days) ==
    LET end_date   == now
        start_date == end_date - days * Day
    IN  Keep(returns, [i \in DOMAIN returns |->
                          /\ returns[i].return_date >= start_date
                          /\ returns[i].return_date <= end_date])

\* the $group stage for one day
TrendGroup(matched, day) ==
    LET docs == Keep(matched, [i \in DOMAIN matched |->
                                  DayOf(matched[i].return_date) = day])
    IN  [_id          |-> day,
         return_count |-> Len(docs),
         fraud_count  |-> SumSeq([i \in DOMAIN docs |->
                                     IF docs[i].is_fraud_suspected THEN 1 ELSE 0]),
         total_refund |-> SumSeq([i \in DOMAIN docs |-> docs[i].refund_amount])]

\* the pipeline with its $sort, and to_list(days)
DailyTrends(days) ==
    LET matched == TrendMatched(days)
        keys    == Ascending({DayOf(matched[i].return_date) : i \in DOMAIN matched})
    IN  to_list([i \in DOMAIN keys |-> TrendGroup(matched, keys[i])], days)

\* a mistaken label: "increasing" also on equal counts
TrendLabel_Inclusive(counts) ==
    IF Len(counts) > 1 /\ counts[Len(counts)] >= counts[1]
    THEN "increasing" ELSE "stable"

\* "increasing" if len(counts) > 1 and counts[-1] > counts[0] else "stable"
TrendLabel(counts) ==
    IF Len(counts) > 1 /\ counts[Len(counts)] > counts[1]
    THEN "increasing" ELSE "stable"

\* the average without its guard
TrendAverage_Unguarded(counts) ==
    IF counts # <<>> THEN F64DivInt(SumSeq(counts), Len(counts))
    ELSE [raised |-> "ZeroDivisionError"]

\* sum(counts) / len(counts) if counts else 0
TrendAverage(counts) ==
    IF counts # <<>> THEN F64DivInt(SumSeq(counts), Len(counts)) ELSE F64Zero

get_trend_analysis(days) ==
    LET daily_trends  == DailyTrends(days)
        return_counts == [i \in DOMAIN daily_trends |-> daily_trends[i].return_count]
        fraud_counts  == [i \in DOMAIN daily_trends |-> daily_trends[i].fraud_count]
    IN  [daily_trends      |-> daily_trends,
         return_trend      |-> TrendLabel(return_counts),
         fraud_trend       |-> TrendLabel(fraud_counts),
         avg_daily_returns |-> TrendAverage(return_counts),
         avg_daily_fraud   |-> TrendAverage(fraud_counts)]

GetTrendAnalysis(days) ==
    /\ out' = [op |-> "get_trend_analysis", days |-> days] @@ get_trend_analysis(days)
    /\ bundle' = EmptyBundle
    /\ UNCHANGED <<orders, returns, now, customers, refunds>>

(***************************************************************************)
(* Trends: returns dated on the days around a window of one or three days, *)
(* inserted in the order of their dates, some of them flagged as suspected *)
(* fraud; now is at noon.                                                  *)
(***************************************************************************)
MaxTrendReturns == 4

TrendDays == {1, 3}

TrendNow == T0 + 10 * Day + 12 * Hour

TrendReturnDates ==
    {TrendNow - 3 * Day - 1, TrendNow - 3 * Day, TrendNow - 2 * Day,
     TrendNow - Day, TrendNow, TrendNow + 1}

TrendReturns(id) ==
    {Return(id, UnknownOrderId, "c1", "p1", "defective", d, 2500, fraud) :
        d \in {x \in TrendReturnDates :
                  returns = <<>> \/ x >= returns[Len(returns)].return_date},
        fraud \in BOOLEAN}

InitTrend ==
    /\ orders = <<>>
    /\ returns = <<>>
    /\ customers = <<>>
    /\ refunds = <<>>
    /\ now = TrendNow
    /\ bundle = EmptyBundle
    /\ out = NoResult

NextTrend ==
    \/ /\ Len(returns) < MaxTrendReturns
       /\ \E r \in TrendReturns(Len(returns) + 1) : InsertReturn(r)
    \/ \E days \in TrendDays : GetTrendAnalysis(days)

SpecTrend == InitTrend /\ [][NextTrend]_vars

Analysed == out.op = "get_trend_analysis"

FirstBucket == out.daily_trends[1]

LastBucket == out.daily_trends[Len(out.daily_trends)]

\* C10: return_trend (fraud_trend) is "increasing" only when the return
\* (fraud) count of the last daily bucket is strictly greater than that of
\* the first; equal counts, a lower last count, a single bucket and no
\* buckets yield "stable".
C10_TrendLabel ==
    Analysed =>
        /\ out.return_trend \in {"increasing", "stable"}
        /\ out.fraud_trend \in {"increasing", "stable"}
        /\ out.return_trend = "increasing" <=>
              /\ Len(out.daily_trends) >= 2
              /\ LastBucket.return_count > FirstBucket.return_count
        /\ out.fraud_trend = "increasing" <=>
              /\ Len(out.daily_trends) >= 2
              /\ LastBucket.fraud_count > FirstBucket.fraud_count

\* three buckets with equal return counts first and last, labelled stable,
\* while the fraud counts rise
C10_Witness ==
    /\ Analysed
    /\ Len(out.daily_trends) = 3
    /\ LastBucket.return_count = FirstBucket.return_count
    /\ out.return_trend = "stable"
    /\ out.fraud_trend = "increasing"

(***************************************************************************)
(* The customers collection and get_customer_risk_profiles, lines 353-394. *)
(***************************************************************************)
Customer(id, risk_level) ==
    [id |-> id, email |-> EmailOf(id), risk_level |-> risk_level, created_at |-> T0]

\* insert_many on the customers collection, one document
InsertCustomer(c) ==
    /\ customers' = Append(customers, c)
    /\ out' = NoResult
    /\ bundle' = EmptyBundle
    /\ UNCHANGED <<orders, returns, refunds, now>>

\* a mistaken recommendation: a second indicator lifts low and medium to monitoring
_generate_customer_recommendation_ByIndicators(risk_level, indicators) ==
    IF risk_level = "critical"
    THEN "IMMEDIATE ACTION: Suspend account and investigate. Consider fraud team review."
    ELSE IF risk_level = "high" \/ Len(indicators) > 1
    THEN "Monitor closely. Require additional verification for returns."
    ELSE IF risk_level = "medium"
    THEN "Flag for review. Consider return policy restrictions."
    ELSE "Low risk. Continue normal processing."

\* _generate_customer_recommendation(risk_level, indicators)
_generate_customer_recommendation(risk_level, indicators) ==
    IF risk_level = "critical"
    THEN "IMMEDIATE ACTION: Suspend account and investigate. Consider fraud team review."
    ELSE IF risk_level = "high"
    THEN "Monitor closely. Require additional verification for returns."
    ELSE IF risk_level = "medium"
    THEN "Flag for review. Consider return policy restrictions."
    ELSE "Low risk. Continue normal processing."

\* the body of "for customer in customers"
RiskProfile(customer) ==
    LET customer_data  == _get_customer_analytics_data(customer.id)
        scored         == calculate_fraud_score(customer.id)
        recommendation == _generate_customer_recommendation(scored.risk_level,
                                                            scored.indicators)
    IN  [customer_id         |-> customer.id,
         email               |-> customer.email,
         risk_score          |-> scored.score,
         risk_level          |-> scored.risk_level,
         return_frequency    |-> Get(customer_data, "recent_returns_30d", 0),
         avg_order_value     |-> Get(customer_data, "avg_return_value", RInt(0)),
         return_value_ratio  |-> Get(customer_data, "return_rate", RInt(0)),
         suspicious_patterns |-> scored.indicators,
         recommendation      |-> recommendation]

\* a mistaken sort: ascending, then reversed; ties come out in reverse order
RECURSIVE SortedByScore_Reversed(_)
SortedByScore_Reversed(profiles) ==
    IF profiles = <<>> THEN <<>>
    ELSE LET n    == Len(profiles)
             rest == SortedByScore_Reversed(SubSeq(profiles, 1, n - 1))
             last == profiles[n]
             k    == Cardinality({i \in DOMAIN rest :
                                     RGt(rest[i].risk_score, last.risk_score)})
         IN  SubSeq(rest, 1, k) \o <<last>> \o SubSeq(rest, k + 1, Len(rest))

\* sorted(profiles, key=lambda x: x.risk_score, reverse=True): the last
\* profile goes behind every profile of the sorted rest whose score is not
\* lower
RECURSIVE SortedByScore(_)
SortedByScore(profiles) ==
    IF profiles = <<>> THEN <<>>
    ELSE LET n    == Len(profiles)
             rest == SortedByScore(SubSeq(profiles, 1, n - 1))
             last == profiles[n]
             k    == Cardinality({i \in DOMAIN rest :
                                     RGe(rest[i].risk_score, last.risk_score)})
         IN  SubSeq(rest, 1, k) \o <<last>> \o SubSeq(rest, k + 1, Len(rest))

get_customer_risk_profiles(limit) ==
    LET found    == to_list(to_list(customers, limit), limit)
        profiles == [i \in DOMAIN found |-> RiskProfile(found[i])]
    IN  SortedByScore(profiles)

GetCustomerRiskProfiles(limit) ==
    /\ out' = [op |-> "get_customer_risk_profiles", limit |-> limit,
               profiles |-> get_customer_risk_profiles(limit)]
    /\ bundle' = EmptyBundle
    /\ UNCHANGED <<orders, returns, customers, refunds, now>>

(***************************************************************************)
(* Risk profiles: three customers registered in any order; the k-th order  *)
(* is the k-th customer's; a return is cheap and late or costly and rapid, *)
(* and returns are inserted in the order of their orders.                  *)
(***************************************************************************)
MaxProfileReturns == 4

ProfileCustomers == <<"c1", "c2", "c3">>

ProfileLimits == {2, 100}

ProfileReturnShapes ==
    {[reason |-> "defective", delay |-> 2 * Day, amount |-> 2500],
     [reason |-> "changed_mind", delay |-> Hour, amount |-> 100000]}

Registered(c) == \E i \in DOMAIN customers : customers[i].id = c

ProfileReturns(id) ==
    {Return(id, orders[o].id, orders[o].customer_id, "p1", shape.reason,
            orders[o].order_date + shape.delay, shape.amount, FALSE) :
        o \in {x \in DOMAIN orders :
                  returns = <<>> \/ orders[x].id >= returns[Len(returns)].order_id},
        shape \in ProfileReturnShapes}

InitProfiles ==
    /\ orders = <<>>
    /\ returns = <<>>
    /\ customers = <<>>
    /\ refunds = <<>>
    /\ now = T0 + 3 * Day
    /\ bundle = EmptyBundle
    /\ out = NoResult

NextProfiles ==
    \/ \E i \in DOMAIN ProfileCustomers :
          /\ ~Registered(ProfileCustomers[i])
          /\ InsertCustomer(Customer(ProfileCustomers[i], "low"))
    \/ /\ Len(orders) < Len(ProfileCustomers)
       /\ InsertOrder(Order(Len(orders) + 1, ProfileCustomers[Len(orders) + 1],
                            "delivered", T0, "a1", <<"p1">>))
    \/ /\ Len(returns) < MaxProfileReturns
       /\ \E r \in ProfileReturns(Len(returns) + 1) : InsertReturn(r)
    \/ \E limit \in ProfileLimits : GetCustomerRiskProfiles(limit)

SpecProfiles == InitProfiles /\ [][NextProfiles]_vars

ProfilesListed == out.op = "get_customer_risk_profiles"

StorePosition(c) == CHOOSE i \in DOMAIN customers : customers[i].id = c

\* C11: the profiles of the first limit customers come ordered by risk_score
\* descending, and two profiles with equal risk_score keep the order in which
\* the store returned their customers.
C11_SortedStable ==
    ProfilesListed =>
        /\ Len(out.profiles) = MinOf(Len(customers), out.limit)
        /\ \A i, j \in DOMAIN out.profiles :
              i < j =>
                 /\ RGe(out.profiles[i].risk_score, out.profiles[j].risk_score)
                 /\ RGe(out.profiles[j].risk_score, out.profiles[i].risk_score)
                       => StorePosition(out.profiles[i].customer_id)
                             < StorePosition(out.profiles[j].customer_id)

\* the customer the store returns last has the highest score and comes
\* first, ahead of two customers tied on a positive score
C11_Witness ==
    /\ ProfilesListed
    /\ Len(out.profiles) = 3
    /\ StorePosition(out.profiles[1].customer_id) = 3
    /\ RGt(out.profiles[1].risk_score, out.profiles[2].risk_score)
    /\ out.profiles[2].risk_score = out.profiles[3].risk_score
    /\ RGt(out.profiles[3].risk_score, RInt(0))

RecommendationOf ==
    [critical |-> "IMMEDIATE ACTION: Suspend account and investigate. Consider fraud team review.",
     high     |-> "Monitor closely. Require additional verification for returns.",
     medium   |-> "Flag for review. Consider return policy restrictions.",
     low      |-> "Low risk. Continue normal processing."]

\* C12: every profile's recommendation is the one fixed for its risk_level
\* (critical: suspend and investigate, high: monitor with additional
\* verification, medium: flag for review, low: normal processing), whatever
\* its indicators.
C12_RecommendationByLevel ==
    ProfilesListed =>
        \A i \in DOMAIN out.profiles :
            out.profiles[i].recommendation = RecommendationOf[out.profiles[i].risk_level]

\* two medium profiles with different indicators and the same recommendation
\* beside a high one
C12_Witness ==
    /\ ProfilesListed
    /\ \E i \in DOMAIN out.profiles : out.profiles[i].risk_level = "high"
    /\ \E i, j \in DOMAIN out.profiles :
          /\ out.profiles[i].risk_level = "medium"
          /\ out.profiles[j].risk_level = "medium"
          /\ Len(out.profiles[i].suspicious_patterns)
                < Len(out.profiles[j].suspicious_patterns)

(***************************************************************************)
(* The refunds collection and get_dashboard_metrics, lines 280-351.  An    *)
(* Optional value is a sequence of at most one element: None is <<>>.  A   *)
(* date is the number of its UTC day.                                      *)
(***************************************************************************)
None == <<>>

Some(x) == <<x>>

\* bool(x) for an Optional[int]
Truthy(opt) == opt # None /\ opt[1] # 0

Refund(id, return_id, amount, status, processing_time_days, created_at) ==
    [id |-> id, return_id |-> return_id, amount |-> amount, status |-> status,
     processing_time_days |-> processing_time_days, created_at |-> created_at]

\* insert_many on the refunds collection, one document
InsertRefund(r) ==
    /\ refunds' = Append(refunds, r)
    /\ out' = NoResult
    /\ bundle' = EmptyBundle
    /\ UNCHANGED <<orders, returns, customers, now>>

\* models.QueryFilter, the two fields the engine reads
QueryFilter(start_date, end_date) ==
    [start_date |-> start_date, end_date |-> end_date]

\* datetime.combine(d, datetime.min.time())
StartOfDay(d) == d * Day

\* datetime.combine(d, datetime.max.time()), to the second
EndOfDay(d) == d * Day + Day - 1

\* does the date pass date_filter; filters is None or a QueryFilter
PassesDateFilter(date, filters) ==
    \/ filters = None
    \/ /\ (filters[1].start_date # None => date >= StartOfDay(filters[1].start_date[1]))
       /\ (filters[1].end_date # None => date <= EndOfDay(filters[1].end_date[1]))

\* what a division by zero raises
ZeroDivisionError == [raised |-> "ZeroDivisionError"]

\* the ratio without its guard
GuardedRatio_Unguarded(n, d) ==
    IF d # 0 THEN F64DivInt(n, d) ELSE ZeroDivisionError

\* n / d if d > 0 else 0, on counts
GuardedRatio(n, d) == IF d > 0 THEN F64DivInt(n, d) ELSE F64Zero

FIND_REFUNDS_CAP == 1000

FIND_REVENUE_CAP == 10000

TOP_REASONS == 5

\* {"$sort": {"count": -1}}; the store leaves the order of equal counts
\* open, here they keep the order of the groups
RECURSIVE SortedByCount(_)
SortedByCount(groups) ==
    IF groups = <<>> THEN <<>>
    ELSE LET n    == Len(groups)
             rest == SortedByCount(SubSeq(groups, 1, n - 1))
             last == groups[n]
             k    == Cardinality({i \in DOMAIN rest : rest[i].count >= last.count})
         IN  SubSeq(rest, 1, k) \o <<last>> \o SubSeq(rest, k + 1, Len(rest))

\* return_reasons_pipeline and to_list(5), as the dict reason -> count
TopReturnReasons ==
    LET keys   == Distinct([i \in DOMAIN returns |-> returns[i].reason])
        groups == [i \in DOMAIN keys |->
                      [_id |-> keys[i], count |-> CountReason(returns, keys[i])]]
        top    == to_list(to_list(SortedByCount(groups), TOP_REASONS), TOP_REASONS)
    IN  [reason \in {top[i]._id : i \in DOMAIN top} |-> CountReason(returns, reason)]

\* returns.count_documents({"is_fraud_suspected": True})
FlaggedReturns ==
    Len(Keep(returns, [i \in DOMAIN returns |-> returns[i].is_fraud_suspected]))

\* date.isoformat() and datetime.isoformat(): a string, no longer a date
IsoFormat(t) == <<"isoformat", t>>

get_dashboard_metrics(filters) ==
    LET matching_orders == Keep(orders, [i \in DOMAIN orders |->
                               PassesDateFilter(orders[i].order_date, filters)])
        total_orders  == Len(matching_orders)
        total_returns == Len(Keep(returns, [i \in DOMAIN returns |->
                               PassesDateFilter(returns[i].return_date, filters)]))
        total_refunds == Len(refunds)
        high_risk_customers ==
            Len(Keep(customers, [i \in DOMAIN customers |->
                                    customers[i].risk_level = "high"]))
        fraud_suspected_returns == FlaggedReturns
        processed_refunds ==
            to_list(Keep(refunds, [i \in DOMAIN refunds |->
                                      refunds[i].status = "processed"]),
                    FIND_REFUNDS_CAP)
        timed == Keep(processed_refunds, [i \in DOMAIN processed_refunds |->
                         Truthy(Get(processed_refunds[i], "processing_time_days", None))])
        processing_times == [i \in DOMAIN timed |-> timed[i].processing_time_days[1]]
        revenue_orders == to_list(matching_orders, FIND_REVENUE_CAP)
        all_refunds    == to_list(refunds, FIND_REVENUE_CAP)
    IN  [total_orders  |-> total_orders,
         total_returns |-> total_returns,
         total_refunds |-> total_refunds,
         overall_return_rate |->
             GuardedRatio(total_returns, total_orders),
         fraud_detection_rate |->
             GuardedRatio(fraud_suspected_returns, total_returns),
         avg_processing_time |->
             IF processing_times # <<>>
             THEN F64DivInt(SumSeq(processing_times), Len(processing_times))
             ELSE F64Zero,
         total_revenue |->
             SumSeq([i \in DOMAIN revenue_orders |-> revenue_orders[i].total_amount]),
         total_refund_amount |->
             SumSeq([i \in DOMAIN all_refunds |-> all_refunds[i].amount]),
         high_risk_customers |-> high_risk_customers,
         top_return_reasons  |-> TopReturnReasons,
         date_range |->
             IF filters # None /\ filters[1].start_date # None
                               /\ filters[1].end_date # None
             THEN [start_date |-> IsoFormat(filters[1].start_date[1]),
                   end_date   |-> IsoFormat(filters[1].end_date[1])]
             ELSE <<>>]

GetDashboardMetrics(filters) ==
    /\ out' = [op |-> "get_dashboard_metrics", filters |-> filters,
               metrics |-> get_dashboard_metrics(filters)]
    /\ bundle' = EmptyBundle
    /\ UNCHANGED <<orders, returns, customers, refunds, now>>

(***************************************************************************)
(* detect_anomalies, lines 124-141: the findings of the three detectors,   *)
(* one list after the other.                                               *)
(***************************************************************************)
\* the findings with the ring detector first
detect_anomalies_RingsFirst ==
    _detect_potential_fraud_rings \o _detect_mass_return_events
        \o _detect_product_return_abuse

detect_anomalies ==
    _detect_mass_return_events \o _detect_potential_fraud_rings
        \o _detect_product_return_abuse

\* a mistaken detection that flags every return in the store
DetectAnomalies_Marking ==
    /\ out' = [op |-> "detect_anomalies", patterns |-> detect_anomalies]
    /\ bundle' = EmptyBundle
    /\ returns' = [i \in DOMAIN returns |->
                      [returns[i] EXCEPT !.is_fraud_suspected = TRUE]]
    /\ UNCHANGED <<orders, customers, refunds, now>>

DetectAnomalies ==
    /\ out' = [op |-> "detect_anomalies", patterns |-> detect_anomalies]
    /\ bundle' = EmptyBundle
    /\ UNCHANGED <<orders, returns, customers, refunds, now>>

(***************************************************************************)
(* The whole engine against one store.  The store is loaded with: c1 and   *)
(* then c2 as customers; three orders of three customers at one address,   *)
(* in one batch, and an order of c1 elsewhere; five returns of p1 by c1    *)
(* against orders the store does not hold, in one batch, and a flagged     *)
(* return of the first order; one processed refund.                        *)
(***************************************************************************)
MaxEngineRefunds == 1

EngineNow == T0 + 3 * Day

EngineCustomers == <<Customer("c1", "low"), Customer("c2", "high")>>

EngineOrderBatches ==
    {<<1>>, <<1, 2, 3>>}

EngineOrderBatch(shape) ==
    [i \in DOMAIN shape |->
        Order(Len(orders) + i, ProfileCustomers[shape[i]], "delivered", T0,
              IF Len(shape) = 1 THEN "a2" ELSE "a1", <<"p1">>)]

EngineReturnBatch ==
    [i \in 1..PRODUCT_MIN_RETURNS |->
        Return(Len(returns) + i, UnknownOrderId, "c1", "p1", "changed_mind",
               T0 + 2 * Day, 2500, FALSE)]

EngineRefunds(id) ==
    {Refund(id, 1, 2500, "processed", None, T0 + Day),
     Refund(id, 1, 2500, "processed", Some(3), T0 + Day)}

EngineCalls ==
    {"calculate_fraud_score", "_detect_mass_return_events",
     "_detect_potential_fraud_rings", "_detect_product_return_abuse",
     "detect_anomalies", "get_dashboard_metrics", "get_customer_risk_profiles",
     "get_trend_analysis"}

InitEngine ==
    /\ orders = <<>>
    /\ returns = <<>>
    /\ customers = <<>>
    /\ refunds = <<>>
    /\ now = EngineNow
    /\ bundle = EmptyBundle
    /\ out = NoResult

EngineLoad ==
    \/ /\ Len(customers) < Len(EngineCustomers)
       /\ InsertCustomer(EngineCustomers[Len(customers) + 1])
    \/ \E shape \in EngineOrderBatches :
          /\ \A i \in DOMAIN orders :
                orders[i].shipping_address # EngineOrderBatch(shape)[1].shipping_address
          /\ InsertOrders(EngineOrderBatch(shape))
    \/ /\ \A i \in DOMAIN returns : returns[i].order_id # UnknownOrderId
       /\ InsertReturns(EngineReturnBatch)
    \/ /\ orders # <<>>
       /\ ~Returned(orders[1].id)
       /\ InsertReturn(Return(Len(returns) + 1, orders[1].id, orders[1].customer_id,
                              "p1", "defective", T0 + Day, 2500, TRUE))
    \/ /\ Len(refunds) < MaxEngineRefunds
       /\ \E r \in EngineRefunds(Len(refunds) + 1) : InsertRefund(r)

EngineCall ==
    \/ \E c \in {"c1", "c2"} : CalculateFraudScore(c)
    \/ DetectMassReturnEvents
    \/ DetectPotentialFraudRings
    \/ DetectProductReturnAbuse
    \/ DetectAnomalies
    \/ GetDashboardMetrics(None)
    \/ GetCustomerRiskProfiles(100)
    \/ GetTrendAnalysis(7)

NextEngine == EngineLoad \/ EngineCall

SpecEngine == InitEngine /\ [][NextEngine]_vars

\* C13: every engine operation leaves the customers, orders, returns and
\* refunds collections as they were.
C13_StoreUnchanged ==
    [][out'.op \in EngineCalls => UNCHANGED <<customers, orders, returns, refunds>>]_vars

\* all three detectors have reported on a store with documents in every
\* collection
C13_Witness ==
    /\ out.op = "detect_anomalies"
    /\ {out.patterns[i].pattern_type : i \in DOMAIN out.patterns}
          = {"mass_return_event", "potential_fraud_ring", "product_return_abuse"}
    /\ customers # <<>>
    /\ refunds # <<>>

TimedRefunds ==
    {i \in DOMAIN refunds :
        /\ refunds[i].status = "processed"
        /\ refunds[i].processing_time_days \notin {None, Some(0)}}

\* C15: no ratio or mean is ever taken over a zero denominator: a guarded
\* one is 0 when its denominator is 0, and the denominator of an unguarded
\* one (the customer's order count after the no-orders return, the size of a
\* ring group) is never 0.
C15_NoZeroDivision ==
    /\ out.op = "calculate_fraud_score" =>
          /\ CountByCustomer(orders, out.customer_id) = 0 =>
                bundle = EmptyBundle /\ out.score = RInt(0)
          /\ CountByCustomer(orders, out.customer_id) > 0 =>
                /\ bundle.total_orders > 0
                /\ bundle.return_rate = Rat(bundle.total_returns, bundle.total_orders)
                /\ bundle.total_returns = 0 => bundle.avg_return_value = RInt(0)
    /\ out.op \in {"_detect_potential_fraud_rings", "detect_anomalies"} =>
          \A i \in DOMAIN out.patterns :
              out.patterns[i].pattern_type = "potential_fraud_ring" =>
                  /\ out.patterns[i].evidence.customer_count > 0
                  /\ \A c \in CustomersAt(out.patterns[i].evidence.shared_address) :
                        CountByCustomer(orders, c) > 0
                  /\ out.patterns[i].evidence.avg_return_rate # ZeroDivisionError
    /\ out.op \in {"_detect_product_return_abuse", "detect_anomalies"} =>
          /\ \A i \in DOMAIN out.patterns :
                out.patterns[i].pattern_type = "product_return_abuse" =>
                    out.patterns[i].evidence.return_rate # ZeroDivisionError
          /\ \A p \in Products :
                OrdersHolding(p) = 0 =>
                    \A i \in DOMAIN out.patterns :
                        out.patterns[i].pattern_type = "product_return_abuse" =>
                            out.patterns[i].evidence.product_id # p
    /\ out.op = "get_dashboard_metrics" =>
          /\ out.metrics.overall_return_rate # ZeroDivisionError
          /\ out.metrics.fraud_detection_rate # ZeroDivisionError
          /\ out.metrics.avg_processing_time # ZeroDivisionError
          /\ out.metrics.total_orders = 0 => out.metrics.overall_return_rate = F64Zero
          /\ out.metrics.total_returns = 0 => out.metrics.fraud_detection_rate = F64Zero
          /\ TimedRefunds = {} => out.metrics.avg_processing_time = F64Zero
    /\ out.op = "get_trend_analysis" =>
          /\ out.avg_daily_returns # ZeroDivisionError
          /\ out.avg_daily_fraud # ZeroDivisionError
          /\ out.daily_trends = <<>> =>
                out.avg_daily_returns = F64Zero /\ out.avg_daily_fraud = F64Zero

\* the dashboard over a store with returns, one of them flagged, but without
\* orders and without a timed refund
C15_Witness ==
    /\ out.op = "get_dashboard_metrics"
    /\ out.metrics.total_orders = 0
    /\ out.metrics.total_returns > 0
    /\ refunds # <<>>
    /\ TimedRefunds = {}

AllEmpty == customers = <<>> /\ orders = <<>> /\ returns = <<>> /\ refunds = <<>>

\* C16: with every collection empty detect_anomalies and
\* get_customer_risk_profiles return empty lists, get_dashboard_metrics
\* returns every count, rate and sum 0 and no top return reason, and
\* get_trend_analysis returns no bucket, both trends stable and both
\* averages 0.
C16_EmptyDefaults ==
    AllEmpty =>
        /\ out.op \in {"detect_anomalies", "_detect_mass_return_events",
                       "_detect_potential_fraud_rings",
                       "_detect_product_return_abuse"} => out.patterns = <<>>
        /\ out.op = "get_customer_risk_profiles" => out.profiles = <<>>
        /\ out.op = "get_dashboard_metrics" =>
              /\ out.metrics.total_orders = 0
              /\ out.metrics.total_returns = 0
              /\ out.metrics.total_refunds = 0
              /\ out.metrics.high_risk_customers = 0
              /\ out.metrics.overall_return_rate = F64Zero
              /\ out.metrics.fraud_detection_rate = F64Zero
              /\ out.metrics.avg_processing_time = F64Zero
              /\ out.metrics.total_revenue = 0
              /\ out.metrics.total_refund_amount = 0
              /\ DOMAIN out.metrics.top_return_reasons = {}
        /\ out.op = "get_trend_analysis" =>
              /\ out.daily_trends = <<>>
              /\ out.return_trend = "stable"
              /\ out.fraud_trend = "stable"
              /\ out.avg_daily_returns = F64Zero
              /\ out.avg_daily_fraud = F64Zero

C16_Witness == AllEmpty /\ out.op = "get_dashboard_metrics"

(***************************************************************************)
(* The retrieval cap of the signal extraction, lines 82-83: a customer     *)
(* whose orders reach and pass to_list(1000).  The data generator loads    *)
(* the bulk of the orders in one insert_many; single orders of c1 and of   *)
(* another customer follow, and returns of c1 against the first and the    *)
(* latest order.                                                           *)
(***************************************************************************)
MaxCapExtra == 3

MaxCapReturns == 2

CapBulk == [i \in 1..(FIND_CAP - 1) |->
               Order(i, "c1", "delivered", T0, "a1", <<"p1">>)]

CapOrders(id) ==
    {Order(id, c, "delivered", T0, "a1", <<"p1">>) : c \in {"c1", "c2"}}

CapReturns(id) ==
    {Return(id, oid, "c1", "p1", "changed_mind", T0 + Hour, 60000, FALSE) :
        oid \in {1, Len(orders)}}

InitCap ==
    /\ orders = <<>>
    /\ returns = <<>>
    /\ customers = <<>>
    /\ refunds = <<>>
    /\ now = T0 + 3 * Day
    /\ bundle = EmptyBundle
    /\ out = NoResult

NextCap ==
    \/ /\ orders = <<>>
       /\ InsertOrders(CapBulk)
    \/ /\ orders # <<>>
       /\ Len(orders) < Len(CapBulk) + MaxCapExtra
       /\ \E o \in CapOrders(Len(orders) + 1) : InsertOrder(o)
    \/ /\ orders # <<>>
       /\ Len(returns) < MaxCapReturns
       /\ \E r \in CapReturns(Len(returns) + 1) : InsertReturn(r)
    \/ CalculateFraudScore("c1")

SpecCap == InitCap /\ [][NextCap]_vars

(***************************************************************************)
(* Claim about the cap, checked under SpecCap.                             *)
(***************************************************************************)
\* what the store holds of a customer up to the cap
FirstRecords(coll, customer_id) ==
    to_list(FindByCustomer(coll, customer_id), FIND_CAP)

\* the outcome for a customer whose records are exactly ords and rets, no
\* more of either than the cap
OutcomeFor(customer_id, ords, rets) ==
    [op |-> "calculate_fraud_score", customer_id |-> customer_id]
    @@ ScoreOf(IF ords = <<>> THEN EmptyBundle ELSE CustomerSignals(ords, rets))

OverCap(customer_id) ==
    \/ CountByCustomer(orders, customer_id) > FIND_CAP
    \/ CountByCustomer(returns, customer_id) > FIND_CAP

\* C14: for a customer with more orders or returns than the cap, the outcome
\* of calculate_fraud_score can be told from the outcome for a customer who
\* has only the first 1000 records: it differs from it, or carries a warning.
C14_CapWarned ==
    (Scored /\ OverCap(out.customer_id)) =>
        \/ "warning" \in DOMAIN out
        \/ out # OutcomeFor(out.customer_id,
                            FirstRecords(orders, out.customer_id),
                            FirstRecords(returns, out.customer_id))

\* the customer is over the cap and a return against the order beyond the
\* cap is in the store
C14_Witness ==
    /\ Scored
    /\ OverCap(out.customer_id)
    /\ \E r \in 1..Len(returns) :
          /\ returns[r].order_id > FIND_CAP
          /\ orders[returns[r].order_id].customer_id = out.customer_id

(***************************************************************************)
(* The export of server.py, lines 285-350: _get_export_data and the JSON   *)
(* endpoint around it.  A call ends in a record: with the field raised for  *)
(* an exception, with the field returned for a value.                      *)
(***************************************************************************)
ValueError == [raised |-> "ValueError"]

ReturnValue(value) == [returned |-> value]

EXPORT_CAP == 10000

DatetimeKeys == {"order_date", "updated_at", "return_date", "created_at"}

\* the loop over item.items(), lines 343-348
ExportItem(doc) ==
    [k \in DOMAIN doc |->
        IF k \in DatetimeKeys THEN IsoFormat(doc[k]) ELSE doc[k]]

ExportDateField(data_type) ==
    IF data_type = "orders" THEN "order_date"
    ELSE IF data_type = "returns" THEN "return_date"
    ELSE "created_at"

\* does a document pass mongo_filter, lines 311-321; a document without the
\* date field passes no range
PassesExportFilter(doc, data_type, filters) ==
    \/ filters = None
    \/ filters[1].start_date = None /\ filters[1].end_date = None
    \/ /\ ExportDateField(data_type) \in DOMAIN doc
       /\ PassesDateFilter(doc[ExportDateField(data_type)], filters)

_get_export_data(data_type, filters) ==
    IF data_type = "analytics" THEN ReturnValue(<<get_dashboard_metrics(filters)>>)
    ELSE IF data_type \notin {"customers", "orders", "returns", "refunds"}
    THEN ValueError
    ELSE LET collection == IF data_type = "customers" THEN customers
                           ELSE IF data_type = "orders" THEN orders
                           ELSE IF data_type = "returns" THEN returns
                           ELSE refunds
             data == to_list(Keep(collection, [i \in DOMAIN collection |->
                                 PassesExportFilter(collection[i], data_type, filters)]),
                             EXPORT_CAP)
         IN  ReturnValue([i \in DOMAIN data |-> ExportItem(data[i])])

HTTPException(status_code, detail) ==
    [raised |-> "HTTPException", status_code |-> status_code, detail |-> detail]

\* the try block of export_to_csv and of export_to_json: the data, or what
\* is raised in it
ExportTry(data_type, filters) ==
    LET data == _get_export_data(data_type, filters)
    IN  IF "raised" \in DOMAIN data THEN data
        ELSE IF data.returned # <<>> THEN ReturnValue(data.returned)
        ELSE HTTPException(404, "No data found for export")

\* try ... except Exception as e: raise HTTPException(500, "Export failed:
\* ..."); HTTPException is an Exception, so the 404 of the try block is
\* caught like any other and leaves as a 500
ExportResponse(data_type, filters) ==
    LET tried == ExportTry(data_type, filters)
    IN  IF "raised" \in DOMAIN tried
        THEN [status |-> 500, detail |-> "Export failed"]
        ELSE [status |-> 200, data |-> tried.returned]

\* export_to_csv, lines 258-284; the rows stand for the CSV text
ExportToCsv(data_type, filters) ==
    /\ out' = [op |-> "export_to_csv", data_type |-> data_type,
               filters |-> filters] @@ ExportResponse(data_type, filters)
    /\ bundle' = EmptyBundle
    /\ UNCHANGED <<orders, returns, customers, refunds, now>>

\* export_to_json, lines 285-305
ExportToJson(data_type, filters) ==
    /\ out' = [op |-> "export_to_json", data_type |-> data_type,
               filters |-> filters] @@ ExportResponse(data_type, filters)
    /\ bundle' = EmptyBundle
    /\ UNCHANGED <<orders, returns, customers, refunds, now>>

(***************************************************************************)
(* The dashboard and the export under date filters.  One order and up to   *)
(* two returns, flagged or not, are dated on day 100 and day 102; a filter *)
(* names either day, none, or both in either order.                        *)
(***************************************************************************)
MaxDashOrders == 1

MaxDashReturns == 2

DashDays == {T0 \div Day, T0 \div Day + 2}

DashOrders(id) ==
    {Order(id, "c1", "delivered", d * Day + Hour, "a1", <<"p1">>) : d \in DashDays}

DashReturns(id) ==
    {Return(id, UnknownOrderId, "c1", "p1", "defective", d * Day + Hour, 2500, f) :
        d \in DashDays, f \in BOOLEAN}

OptionalDays == {None} \cup {Some(d) : d \in DashDays}

DashFilters ==
    {None} \cup {Some(QueryFilter(s, e)) : s \in OptionalDays, e \in OptionalDays}

\* an export is asked without a filter, for the later day, or for both days
\* in the wrong order
DashExportFilters ==
    {None} \cup {Some(QueryFilter(Some(d), Some(T0 \div Day))) : d \in DashDays}

DashDataTypes ==
    {"customers", "orders", "returns", "refunds", "analytics", "products"}

InitDash ==
    /\ orders = <<>>
    /\ returns = <<>>
    /\ customers = <<>>
    /\ refunds = <<>>
    /\ now = T0 + 3 * Day
    /\ bundle = EmptyBundle
    /\ out = NoResult

NextDash ==
    \/ /\ Len(orders) < MaxDashOrders
       /\ \E o \in DashOrders(Len(orders) + 1) : InsertOrder(o)
    \/ /\ Len(returns) < MaxDashReturns
       /\ \E r \in DashReturns(Len(returns) + 1) : InsertReturn(r)
    \/ \E f \in DashFilters : GetDashboardMetrics(f)
    \/ \E t \in DashDataTypes, f \in DashExportFilters : ExportToJson(t, f)
    \/ \E t \in DashDataTypes, f \in DashExportFilters : ExportToCsv(t, f)

SpecDash == InitDash /\ [][NextDash]_vars

(***************************************************************************)
(* Claims about filters and the fraud detection rate, under SpecDash.      *)
(***************************************************************************)
\* start_date later than end_date
MalformedRange(filters) ==
    /\ filters # None
    /\ filters[1].start_date # None
    /\ filters[1].end_date # None
    /\ filters[1].start_date[1] > filters[1].end_date[1]

\* C17: an invalid filter is answered with an error and never with a result:
\* get_dashboard_metrics with start_date later than end_date reports an error
\* instead of metrics, and an export with a data type outside customers,
\* orders, returns, refunds, analytics reports an error.
C17_InvalidFilterRejected ==
    /\ (out.op = "get_dashboard_metrics" /\ MalformedRange(out.filters)) =>
           "raised" \in DOMAIN out.metrics
    /\ (out.op = "export_to_json"
            /\ out.data_type \notin {"customers", "orders", "returns",
                                     "refunds", "analytics"}) =>
           (out.status # 200 /\ "data" \notin DOMAIN out)

\* an export with an unknown data type ends in a 500 without data
UnknownTypeRejected ==
    (out.op = "export_to_json"
        /\ out.data_type \notin {"customers", "orders", "returns",
                                 "refunds", "analytics"}) =>
        (out.status = 500 /\ "data" \notin DOMAIN out)

UnknownTypeRequested ==
    /\ out.op = "export_to_json"
    /\ out.data_type = "products"
    /\ orders # <<>>
    /\ returns # <<>>
    /\ out.status = 500

\* the returns counted in total_returns
CountedReturns(filters) ==
    Keep(returns, [i \in DOMAIN returns |->
                      PassesDateFilter(returns[i].return_date, filters)])

F64One == F64DivInt(1, 1)

\* C20: fraud_detection_rate is the number of flagged returns among the returns
\* counted in total_returns, divided by total_returns, so it lies in [0,1] for
\* every store and every optional date filter.
C20_FlaggedFraction ==
    out.op = "get_dashboard_metrics" =>
        LET counted == CountedReturns(out.filters)
            flagged == Keep(counted, [i \in DOMAIN counted |->
                                         counted[i].is_fraud_suspected])
        IN  /\ out.metrics.total_returns = Len(counted)
            /\ out.metrics.fraud_detection_rate =
                   (IF counted # <<>>
                    THEN F64DivInt(Len(flagged), Len(counted)) ELSE F64Zero)
            /\ ~F64Gt(out.metrics.fraud_detection_rate, F64One)
            /\ ~F64Gt(F64Zero, out.metrics.fraud_detection_rate)

(***************************************************************************)
(* Repeated runs.  Every detector run reads datetime.utcnow() anew, and    *)
(* the clock moves on between two runs whether or not the store is         *)
(* written.  Returns of c1 are dated at the start of day 100, one second   *)
(* later, or a day later; the first run may come exactly seven days after  *)
(* the start of day 100.  A result stays with the caller while the clock   *)
(* moves on; a write to the store discards it.                             *)
(***************************************************************************)
MaxRerunReturns == 4

MaxRerunTicks == 2

RerunNow == T0 + MASS_RETURN_DAYS * Day

RerunReturns(id) ==
    {Return(id, UnknownOrderId, "c1", "p1", "defective", d, 2500, FALSE) :
        d \in {T0, T0 + 1, T0 + Day}}

RerunOrder == Order(1, "c1", "delivered", T0 - Day, "a1", <<"p1">>)

RerunFilters == {None, Some(QueryFilter(Some(T0 \div Day), None))}

\* a second passes
Tick ==
    /\ now' = now + 1
    /\ UNCHANGED <<orders, returns, customers, refunds, bundle, out>>

InitRerun ==
    /\ orders = <<>>
    /\ returns = <<>>
    /\ customers = <<>>
    /\ refunds = <<>>
    /\ now = RerunNow
    /\ bundle = EmptyBundle
    /\ out = NoResult

NextRerun ==
    \/ /\ orders = <<>>
       /\ InsertOrder(RerunOrder)
    \/ /\ Len(returns) < MaxRerunReturns
       /\ \E r \in RerunReturns(Len(returns) + 1) : InsertReturn(r)
    \/ /\ now < RerunNow + MaxRerunTicks
       /\ Tick
    \/ DetectAnomalies
    \/ \E f \in RerunFilters : GetDashboardMetrics(f)

SpecRerun == InitRerun /\ [][NextRerun]_vars

(***************************************************************************)
(* Claim about repeated runs, checked under SpecRerun.  While out holds    *)
(* the result of a run the store has not been written since that run.      *)
(***************************************************************************)
\* C18: two runs of detect_anomalies against an unchanged store yield the same
\* findings in the same order (pattern type, subject, severity, evidence), and
\* two runs of get_dashboard_metrics with the same filter against an unchanged
\* store yield the same metrics.
C18_SameFindings ==
    [][ /\ (out.op = "detect_anomalies" /\ out'.op = "detect_anomalies") =>
               out'.patterns = out.patterns
        /\ (out.op = "get_dashboard_metrics"
                /\ out'.op = "get_dashboard_metrics"
                /\ out'.filters = out.filters) =>
               out'.metrics = out.metrics ]_vars

\* the dashboard half alone
SameMetrics ==
    [][ (out.op = "get_dashboard_metrics"
             /\ out'.op = "get_dashboard_metrics"
             /\ out'.filters = out.filters) =>
            out'.metrics = out.metrics ]_vars

(***************************************************************************)
(* A failing store.  detect_anomalies (lines 124-141) awaits one detector  *)
(* after the other and extends its local list patterns;                    *)
(* get_customer_risk_profiles (lines 353-382) awaits the store for one     *)
(* customer after the other and appends to its local list profiles.  Here  *)
(* a call runs step by step: while it runs, out is the frame of the call   *)
(* (its position pc and its locals); once it has returned or raised, out   *)
(* is what the caller gets.  Any await of the store may raise.  Neither    *)
(* function nor any detector has a try or an except, so the exception      *)
(* leaves the function and the frame is dropped with its locals; at is the *)
(* position the traceback names.  The store is not written during a call.  *)
(***************************************************************************)
StoreError == "StoreError"

Running == "status" \in DOMAIN out /\ out.status = "running"

DETECTORS == 3

DetectorAt(pc) ==
    IF pc = 1 THEN _detect_mass_return_events
    ELSE IF pc = 2 THEN _detect_potential_fraud_rings
    ELSE _detect_product_return_abuse

\* patterns = []
CallDetectAnomalies ==
    /\ ~Running
    /\ out' = [op |-> "detect_anomalies", status |-> "running", pc |-> 1,
               patterns |-> <<>>]
    /\ bundle' = EmptyBundle
    /\ UNCHANGED <<orders, returns, customers, refunds, now>>

\* patterns.extend(await self._detect_...())
DetectorCompletes ==
    /\ Running
    /\ out.op = "detect_anomalies"
    /\ out.pc <= DETECTORS
    /\ out' = [out EXCEPT !.pc = @ + 1,
                          !.patterns = @ \o DetectorAt(out.pc)]
    /\ UNCHANGED <<orders, returns, customers, refunds, now, bundle>>

\* return patterns
DetectAnomaliesReturns ==
    /\ Running
    /\ out.op = "detect_anomalies"
    /\ out.pc > DETECTORS
    /\ out' = [op |-> "detect_anomalies", status |-> "returned",
               patterns |-> out.patterns]
    /\ UNCHANGED <<orders, returns, customers, refunds, now, bundle>>

\* customers = await ...to_list(limit), taken when the loop needs it: the
\* store is the same all through the call
Fetched(limit) == to_list(to_list(customers, limit), limit)

\* profiles = []
CallGetCustomerRiskProfiles(limit) ==
    /\ ~Running
    /\ out' = [op |-> "get_customer_risk_profiles", status |-> "running",
               limit |-> limit, pc |-> 1, profiles |-> <<>>]
    /\ bundle' = EmptyBundle
    /\ UNCHANGED <<orders, returns, customers, refunds, now>>

\* one round of "for customer in customers", ending in profiles.append
ProfileCompletes ==
    /\ Running
    /\ out.op = "get_customer_risk_profiles"
    /\ out.pc <= Len(Fetched(out.limit))
    /\ out' = [out EXCEPT !.pc = @ + 1,
                          !.profiles =
                              Append(@, RiskProfile(Fetched(out.limit)[out.pc]))]
    /\ UNCHANGED <<orders, returns, customers, refunds, now, bundle>>

\* return sorted(profiles, ...)
GetCustomerRiskProfilesReturns ==
    /\ Running
    /\ out.op = "get_customer_risk_profiles"
    /\ out.pc > Len(Fetched(out.limit))
    /\ out' = [op |-> "get_customer_risk_profiles", status |-> "returned",
               limit |-> out.limit, profiles |-> SortedByScore(out.profiles)]
    /\ UNCHANGED <<orders, returns, customers, refunds, now, bundle>>

\* a handler that swallows the exception and returns what was gathered
StoreCallRaises_ReturnsGathered ==
    /\ Running
    /\ out' = [out EXCEPT !.status = "returned"]
    /\ UNCHANGED <<orders, returns, customers, refunds, now, bundle>>

\* the awaited store call raises; nothing catches it
StoreCallRaises ==
    /\ Running
    /\ out' = [op |-> out.op, status |-> "raised", raised |-> StoreError,
               at |-> out.pc]
    /\ UNCHANGED <<orders, returns, customers, refunds, now, bundle>>

(***************************************************************************)
(* Calls against a store that may fail.  The store is loaded as for the    *)
(* whole engine: two customers, a single order of c1 holding p1, five      *)
(* returns of p1 by c1 in one batch (a mass return event and, with the     *)
(* order, a product return abuse), and costly returns of c2.               *)
(***************************************************************************)
MaxPartialReturns == 2

PartialLimits == {1, 100}

PartialReturns(id) ==
    {Return(id, UnknownOrderId, "c2", "p2", "changed_mind", T0 + 2 * Day,
            100000, FALSE)}

InitPartial ==
    /\ orders = <<>>
    /\ returns = <<>>
    /\ customers = <<>>
    /\ refunds = <<>>
    /\ now = EngineNow
    /\ bundle = EmptyBundle
    /\ out = NoResult

PartialLoad ==
    \/ /\ Len(customers) < Len(EngineCustomers)
       /\ InsertCustomer(EngineCustomers[Len(customers) + 1])
    \/ /\ orders = <<>>
       /\ InsertOrders(EngineOrderBatch(<<1, 2>>))
    \/ /\ \A i \in DOMAIN returns : returns[i].customer_id # "c1"
       /\ InsertReturns(EngineReturnBatch)
    \/ /\ Cardinality({i \in DOMAIN returns : returns[i].customer_id = "c2"})
              < MaxPartialReturns
       /\ \E r \in PartialReturns(Len(returns) + 1) : InsertReturn(r)

NextPartial ==
    \/ ~Running /\ PartialLoad
    \/ CallDetectAnomalies
    \/ DetectorCompletes
    \/ DetectAnomaliesReturns
    \/ \E limit \in PartialLimits : CallGetCustomerRiskProfiles(limit)
    \/ ProfileCompletes
    \/ GetCustomerRiskProfilesReturns
    \/ StoreCallRaises

SpecPartial == InitPartial /\ [][NextPartial]_vars

(***************************************************************************)
(* Claim about partial results, checked under SpecPartial.                 *)
(***************************************************************************)
FraudPatternFields == {"customer_id", "pattern_type", "severity", "evidence"}

CustomerRiskProfileFields ==
    {"customer_id", "email", "risk_score", "risk_level", "return_frequency",
     "avg_order_value", "return_value_ratio", "suspicious_patterns",
     "recommendation"}

Ended == "status" \in DOMAIN out /\ out.status \in {"returned", "raised"}

\* C19: a call of detect_anomalies or get_customer_risk_profiles during which
\* a store call fails ends without any pattern list or profile list; a call
\* that returns a list returns the findings of all three detectors, or the
\* profile of every fetched customer, each with all its fields.
C19_NoPartialResults ==
    Ended =>
        /\ out.status = "raised" =>
               DOMAIN out \cap {"patterns", "profiles"} = {}
        /\ (out.status = "returned" /\ out.op = "detect_anomalies") =>
               /\ out.patterns = detect_anomalies
               /\ \A i \in DOMAIN out.patterns :
                      DOMAIN out.patterns[i] = FraudPatternFields
        /\ (out.status = "returned" /\ out.op = "get_customer_risk_profiles") =>
               /\ out.profiles = get_customer_risk_profiles(out.limit)
               /\ \A i \in DOMAIN out.profiles :
                      DOMAIN out.profiles[i] = CustomerRiskProfileFields

\* a store call failed after the mass detector had found a pattern, or after
\* the first of two profiles was built
C19_Witness ==
    /\ Ended
    /\ out.status = "raised"
    /\ out.at > 1
    /\ \/ out.op = "detect_anomalies" /\ _detect_mass_return_events # <<>>
       \/ out.op = "get_customer_risk_profiles" /\ Len(customers) > 1

(***************************************************************************)
(* The dashboard over refunds.  A refund is processed or approved, carries *)
(* no processing time, one of 0 days (refunded on the day of the request)  *)
(* or one of 4 days, and is created on day 100 or day 102; an order is     *)
(* placed on either day.  The filter is absent, ends with day 100 or       *)
(* starts with day 102.                                                    *)
(***************************************************************************)
MaxRefundDocs == 2

RefundDocs(id) ==
    {Refund(id, 1, 2500, status, days, d * Day + Hour) :
        status \in {"processed", "approved"},
        days \in {None, Some(0), Some(4)},
        d \in DashDays}

RefundFilters ==
    {None,
     Some(QueryFilter(None, Some(T0 \div Day))),
     Some(QueryFilter(Some(T0 \div Day + 2), None))}

InitRefunds ==
    /\ orders = <<>>
    /\ returns = <<>>
    /\ customers = <<>>
    /\ refunds = <<>>
    /\ now = T0 + 3 * Day
    /\ bundle = EmptyBundle
    /\ out = NoResult

NextRefunds ==
    \/ /\ Len(orders) < MaxDashOrders
       /\ \E o \in DashOrders(Len(orders) + 1) : InsertOrder(o)
    \/ /\ Len(refunds) < MaxRefundDocs
       /\ \E r \in RefundDocs(Len(refunds) + 1) : InsertRefund(r)
    \/ \E f \in RefundFilters : GetDashboardMetrics(f)

SpecRefunds == InitRefunds /\ [][NextRefunds]_vars

(***************************************************************************)
(* Claims about the dashboard's counts, sums and mean, under SpecRefunds.  *)
(***************************************************************************)
\* the documents of a collection whose date passes the filter
MatchingDocs(coll, date_field, filters) ==
    Keep(coll, [i \in DOMAIN coll |-> PassesDateFilter(coll[i][date_field], filters)])

\* C21: with a date filter total_orders, total_returns and total_refunds count
\* only the records matching the filter, and total_revenue and
\* total_refund_amount sum over the counted orders and refunds; without a
\* filter they cover all records.
C21_FilteredCounts ==
    out.op = "get_dashboard_metrics" =>
        LET counted_orders  == MatchingDocs(orders, "order_date", out.filters)
            counted_returns == MatchingDocs(returns, "return_date", out.filters)
            counted_refunds == MatchingDocs(refunds, "created_at", out.filters)
        IN  /\ out.metrics.total_orders = Len(counted_orders)
            /\ out.metrics.total_returns = Len(counted_returns)
            /\ out.metrics.total_refunds = Len(counted_refunds)
            /\ out.metrics.total_revenue =
                   SumSeq([i \in DOMAIN counted_orders |->
                              counted_orders[i].total_amount])
            /\ out.metrics.total_refund_amount =
                   SumSeq([i \in DOMAIN counted_refunds |->
                              counted_refunds[i].amount])

\* the orders half of C21 and the figures without a filter
FilteredOrders ==
    out.op = "get_dashboard_metrics" =>
        LET counted_orders == MatchingDocs(orders, "order_date", out.filters)
        IN  /\ out.metrics.total_orders = Len(counted_orders)
            /\ out.metrics.total_revenue =
                   SumSeq([i \in DOMAIN counted_orders |->
                              counted_orders[i].total_amount])
            /\ out.filters = None =>
                   /\ out.metrics.total_refunds = Len(refunds)
                   /\ out.metrics.total_refund_amount =
                          SumSeq([i \in DOMAIN refunds |-> refunds[i].amount])

\* the processed refunds with a recorded duration, 0 days included
RecordedDurations ==
    LET recorded == Keep(refunds, [i \in DOMAIN refunds |->
                            /\ refunds[i].status = "processed"
                            /\ refunds[i].processing_time_days # None])
    IN  [i \in DOMAIN recorded |-> recorded[i].processing_time_days[1]]

\* C22: avg_processing_time is the mean of processing_time_days over the
\* processed refunds with a recorded duration, a duration of 0 days included,
\* and 0 when there is none; unprocessed refunds are ignored.
C22_MeanOfRecorded ==
    out.op = "get_dashboard_metrics" =>
        out.metrics.avg_processing_time =
            (IF RecordedDurations # <<>>
             THEN F64DivInt(SumSeq(RecordedDurations), Len(RecordedDurations))
             ELSE F64Zero)

\* the same mean over the durations other than 0
MeanOfNonZero ==
    out.op = "get_dashboard_metrics" =>
        LET counted == Keep(RecordedDurations,
                            [i \in DOMAIN RecordedDurations |->
                                RecordedDurations[i] # 0])
        IN  out.metrics.avg_processing_time =
                (IF counted # <<>>
                 THEN F64DivInt(SumSeq(counted), Len(counted))
                 ELSE F64Zero)

(***************************************************************************)
(* Claim about the daily buckets, checked under SpecTrend.                 *)
(***************************************************************************)
\* the returns dated in [now - days, now]
InWindow(days) ==
    {i \in DOMAIN returns : /\ returns[i].return_date >= now - days * Day
                            /\ returns[i].return_date <= now}

BucketSum(field) ==
    SumSeq([i \in DOMAIN out.daily_trends |-> out.daily_trends[i][field]])

\* C23: every return dated in [now - N days, now] is counted in exactly one
\* daily bucket, that of its calendar day: the return counts of the buckets
\* sum to the number of returns in the window, the fraud counts to the number
\* of flagged returns in the window, and the last bucket is the most recent
\* day with a return.
C23_EveryReturnBucketed ==
    Analysed =>
        LET window == InWindow(out.days)
        IN  /\ \A i \in window :
                   Cardinality({b \in DOMAIN out.daily_trends :
                       out.daily_trends[b]._id = DayOf(returns[i].return_date)}) = 1
            /\ BucketSum("return_count") = Cardinality(window)
            /\ BucketSum("fraud_count") =
                   Cardinality({i \in window : returns[i].is_fraud_suspected})
            /\ window # {} =>
                   \A i \in window : DayOf(returns[i].return_date) <= LastBucket._id

\* the buckets are the first N calendar days of the window that have a
\* return, in ascending order, each with the counts of its day
FirstDaysBucketed ==
    Analysed =>
        LET window == InWindow(out.days)
            dates  == Ascending({DayOf(returns[i].return_date) : i \in window})
            kept   == SubSeq(dates, 1, MinOf(Len(dates), out.days))
        IN  /\ Len(out.daily_trends) = Len(kept)
            /\ \A b \in DOMAIN kept :
                  /\ out.daily_trends[b]._id = kept[b]
                  /\ out.daily_trends[b].return_count =
                         Cardinality({i \in window :
                                         DayOf(returns[i].return_date) = kept[b]})
                  /\ out.daily_trends[b].fraud_count =
                         Cardinality({i \in window :
                                         /\ DayOf(returns[i].return_date) = kept[b]
                                         /\ returns[i].is_fraud_suspected})

(***************************************************************************)
(* The score in binary64, as calculate_fraud_score computes it, lines      *)
(* 33-76.  The exact rationals above agree with it on every comparison     *)
(* with a threshold, but not to the last bit of the sum: the mean refund   *)
(* of returns whose amounts add up to a round figure may come out one unit *)
(* in the last place below it.  Refund amounts are floats of two decimals, *)
(* cents / 100 correctly rounded.                                          *)
(***************************************************************************)
\* the binary digits of n > 0, the highest first
IntBits(n) ==
    LET k == Log2Floor(n, 1) + 1
    IN  [i \in 1..k |-> (n \div Pow2(k - i)) % 2]

\* float(n) for a Python int n >= 0 below 2^53
F64OfInt(n) ==
    IF n = 0 THEN F64Zero
    ELSE F64Round(IntBits(n), FALSE, Log2Floor(n, 1))

\* p + q on bit strings of any lengths, as a bit string that holds the carry
AddExact(p, q) ==
    LET n   == IF Len(p) >= Len(q) THEN Len(p) ELSE Len(q)
        sum == AddBits(Zeros(n - Len(p)) \o p, Zeros(n - Len(q)) \o q)
    IN  <<sum.c>> \o sum.bits

\* the bit string times k >= 1
RECURSIVE MulBits(_, _)
MulBits(bits, k) ==
    IF k = 1 THEN bits
    ELSE IF k % 2 = 0 THEN MulBits(bits, k \div 2) \o <<0>>
    ELSE AddExact(MulBits(bits, k - 1), bits)

\* x * k for a float x and a Python int k >= 1: the exact product, rounded
F64MulInt(x, k) ==
    IF x = F64Zero THEN F64Zero
    ELSE LET product == MulBits(x.m, k)
             z       == LeadingZeros(product)
             bits    == SubSeq(product, z + 1, Len(product))
         IN  F64Round(bits, FALSE, x.e - (F64_PRECISION - 1) + Len(bits) - 1)

\* x >= y
F64Ge(x, y) == ~F64Gt(y, x)

\* min(cap, x) without the cap
F64MinInt_Uncapped(cap, x) == x

\* min(cap, x) for a Python int cap and a float x, as a float
F64MinInt(cap, x) == IF F64Gt(F64OfInt(cap), x) THEN x ELSE F64OfInt(cap)

\* refund_amount of a return of so many cents
F64Amount(cents) == F64DivByInt(F64OfInt(cents), 100)

\* sum(return_values) / len(return_values) if return_values else 0, line 105
F64AvgReturnValue(return_values) ==
    IF return_values # <<>>
    THEN F64DivByInt(F64Sum([i \in DOMAIN return_values |->
                                F64Amount(return_values[i])]),
                     Len(return_values))
    ELSE F64Zero

\* the points of the five factors, in the order of the code; cd carries
\* return_rate and avg_return_value as floats
F64Points(cd) ==
    <<IF F64Gt(cd.return_rate, F64DivInt(3, 10))
      THEN F64MinInt(30, F64MulInt(cd.return_rate, 100)) ELSE F64Zero,
      IF cd.recent_returns_30d > FREQUENT_RETURNER_THRESHOLD
      THEN F64OfInt(MinOf(25, cd.recent_returns_30d * 4)) ELSE F64Zero,
      IF F64Gt(cd.avg_return_value, F64OfInt(HIGH_VALUE_RETURN_THRESHOLD \div 100))
      THEN F64MinInt(20, F64MulInt(F64DivByInt(cd.avg_return_value,
                                  HIGH_VALUE_RETURN_THRESHOLD \div 100), 10))
      ELSE F64Zero,
      IF cd.rapid_returns > 0
      THEN F64OfInt(MinOf(15, cd.rapid_returns * 7)) ELSE F64Zero,
      IF cd.suspicious_reason_count > 2
      THEN F64OfInt(MinOf(10, cd.suspicious_reason_count * 2)) ELSE F64Zero>>

(***************************************************************************)
(* The indicator list of calculate_fraud_score, checked under SpecScore.   *)
(***************************************************************************)
\* the labels of the five factors in the order of the code, each with its
\* trigger read off the signal
FactorLabels(cd) ==
    <<[label |-> "High return rate",
       on    |-> cd.return_rate.n * 10 > 3 * cd.return_rate.d],
      [label |-> "Frequent returner", on |-> cd.recent_returns_30d > 5],
      [label |-> "High-value returns",
       on    |-> cd.avg_return_value.n > 50000 * cd.avg_return_value.d],
      [label |-> "Rapid returns", on |-> cd.rapid_returns > 0],
      [label |-> "Suspicious return reasons",
       on    |-> cd.suspicious_reason_count > 2]>>

\* C26: the indicators are one per triggered factor and none for another, in
\* the order return rate, frequency, value, rapid returns, reasons; the list
\* is empty exactly when the score is 0.
C26_OneIndicatorPerFactor ==
    Scored =>
        /\ bundle # EmptyBundle =>
             LET factors == FactorLabels(bundle)
                 on      == {i \in 1..5 : factors[i].on}
             IN  /\ Len(out.indicators) = Cardinality(on)
                 /\ \A i \in on :
                      out.indicators[Cardinality({j \in on : j <= i})].label
                          = factors[i].label
        /\ out.indicators = <<>> <=> out.score.n = 0

\* return rate, value and reasons triggered, the two between them not
C26_Witness ==
    /\ Scored
    /\ Len(out.indicators) = 3
    /\ out.indicators[1].label = "High return rate"
    /\ out.indicators[2].label = "High-value returns"
    /\ out.indicators[3].label = "Suspicious return reasons"
    /\ bundle.recent_returns_30d <= 5
    /\ bundle.rapid_returns = 0

(***************************************************************************)
(* get_customer_risk_profiles beside writers of the store.  Every await    *)
(* of the call is a step of its own: the customers (line 356), then for    *)
(* each customer the orders and the returns of _get_customer_analytics_data*)
(* (lines 82-83, called at line 361) and the orders and the returns of the *)
(* same function called again by calculate_fraud_score (line 29, called at *)
(* line 364).  Other processes insert orders and returns between the steps *)
(* and leave the frame of the call alone.                                  *)
(***************************************************************************)
MaxSnapshotOrders == 2

MaxSnapshotReturns == 2

SnapshotCustomers == <<Customer("c1", "low"), Customer("c2", "low")>>

\* the awaited reads of one round of the loop, in the order of the code
ProfileReads == <<"data_orders", "data_returns", "score_orders", "score_returns">>

SnapshotOrders ==
    {Order(Len(orders) + 1, c, "delivered", T0, "a1", <<"p1">>) :
        c \in {"c1", "c2"}}

SnapshotReturns ==
    {Return(Len(returns) + 1, orders[o].id, orders[o].customer_id, "p1",
            "changed_mind", T0 + Hour, amount, FALSE) :
        o \in DOMAIN orders, amount \in {2500, 100000}}

InitSnapshot ==
    /\ orders = <<>>
    /\ returns = <<>>
    /\ customers = SnapshotCustomers
    /\ refunds = <<>>
    /\ now = T0 + 3 * Day
    /\ bundle = EmptyBundle
    /\ out = NoResult

\* insert_one by another process
OtherInsertsOrder(o) ==
    /\ orders' = Append(orders, o)
    /\ UNCHANGED <<returns, customers, refunds, now, bundle, out>>

OtherInsertsReturn(r) ==
    /\ returns' = Append(returns, r)
    /\ UNCHANGED <<orders, customers, refunds, now, bundle, out>>

\* customers = await self.db.customers.find().limit(limit).to_list(limit)
FetchCustomers(limit) ==
    /\ ~Running
    /\ out' = [op |-> "get_customer_risk_profiles", status |-> "running",
               limit |-> limit, found |-> to_list(to_list(customers, limit), limit),
               at |-> 1, pc |-> 1, ords |-> <<>>, customer_data |-> EmptyBundle,
               profiles |-> <<>>]
    /\ bundle' = EmptyBundle
    /\ UNCHANGED <<orders, returns, customers, refunds, now>>

\* orders = await self.db.orders.find(...).to_list(1000), in either call
FetchOrders ==
    /\ Running
    /\ out.op = "get_customer_risk_profiles"
    /\ out.at <= Len(out.found)
    /\ ProfileReads[out.pc] \in {"data_orders", "score_orders"}
    /\ out' = [out EXCEPT !.pc = @ + 1,
                          !.ords = to_list(FindByCustomer(orders, out.found[out.at].id),
                                           FIND_CAP)]
    /\ UNCHANGED <<orders, returns, customers, refunds, now, bundle>>

\* the profile of line 369 from the dict of line 361 and the triple of line 364
ProfileFrom(customer, customer_data, scored) ==
    [customer_id         |-> customer.id,
     email               |-> customer.email,
     risk_score          |-> scored.score,
     risk_level          |-> scored.risk_level,
     return_frequency    |-> Get(customer_data, "recent_returns_30d", 0),
     avg_order_value     |-> Get(customer_data, "avg_return_value", RInt(0)),
     return_value_ratio  |-> Get(customer_data, "return_rate", RInt(0)),
     suspicious_patterns |-> scored.indicators,
     recommendation      |-> _generate_customer_recommendation(scored.risk_level,
                                                               scored.indicators)]

\* returns = await self.db.returns.find(...).to_list(1000) and the rest of
\* _get_customer_analytics_data; in the second call the rest of
\* calculate_fraud_score and of the round of the loop follows
FetchReturns ==
    /\ Running
    /\ out.op = "get_customer_risk_profiles"
    /\ out.at <= Len(out.found)
    /\ ProfileReads[out.pc] \in {"data_returns", "score_returns"}
    /\ LET rets == to_list(FindByCustomer(returns, out.found[out.at].id), FIND_CAP)
           data == IF out.ords = <<>> THEN EmptyBundle
                   ELSE CustomerSignals(out.ords, rets)
       IN  IF ProfileReads[out.pc] = "data_returns"
           THEN out' = [out EXCEPT !.pc = @ + 1, !.customer_data = data]
           ELSE out' = [out EXCEPT
                          !.pc = 1,
                          !.at = @ + 1,
                          !.customer_data = EmptyBundle,
                          !.profiles = Append(@, ProfileFrom(out.found[out.at],
                                                             out.customer_data,
                                                             ScoreOf(data)))]
    /\ UNCHANGED <<orders, returns, customers, refunds, now, bundle>>

\* return sorted(profiles, key=lambda x: x.risk_score, reverse=True)
ProfilesReturn ==
    /\ Running
    /\ out.op = "get_customer_risk_profiles"
    /\ out.at > Len(out.found)
    /\ out' = [op |-> "get_customer_risk_profiles", status |-> "returned",
               limit |-> out.limit, profiles |-> SortedByScore(out.profiles)]
    /\ UNCHANGED <<orders, returns, customers, refunds, now, bundle>>

NextSnapshot ==
    \/ /\ Len(orders) < MaxSnapshotOrders
       /\ \E o \in SnapshotOrders : OtherInsertsOrder(o)
    \/ /\ Len(returns) < MaxSnapshotReturns
       /\ \E r \in SnapshotReturns : OtherInsertsReturn(r)
    \/ /\ out = NoResult
       /\ FetchCustomers(100)
    \/ FetchOrders
    \/ FetchReturns
    \/ ProfilesReturn

SpecSnapshot == InitSnapshot /\ [][NextSnapshot]_vars

\* the outcomes of scoring a bundle that has the three signals the profile
\* reports, whatever its other two signals are
ScoresOfReported(p) ==
    {ScoreOf([total_orders            |-> 1,
              total_returns           |-> 1,
              return_rate             |-> p.return_value_ratio,
              recent_returns_30d      |-> p.return_frequency,
              avg_return_value        |-> p.avg_order_value,
              rapid_returns           |-> rap,
              suspicious_reason_count |-> sus]) :
        rap \in 0..(MaxSnapshotReturns + 1), sus \in 0..(MaxSnapshotReturns + 1)}

ProfilesReturned ==
    out.op = "get_customer_risk_profiles" /\ out.status = "returned"

\* C28: every returned profile is consistent, also when the store is
\* written between the reads: its score, band and indicators are those of
\* the signal values it reports.
C28_ProfileFromOneSnapshot ==
    ProfilesReturned =>
        \A i \in DOMAIN out.profiles :
            \E scored \in ScoresOfReported(out.profiles[i]) :
                /\ out.profiles[i].risk_score = scored.score
                /\ out.profiles[i].risk_level = scored.risk_level
                /\ out.profiles[i].suspicious_patterns = scored.indicators

(***************************************************************************)
(* The export endpoints without data, under SpecDash.                      *)
(***************************************************************************)
Exported == out.op \in {"export_to_csv", "export_to_json"}

\* C29: an export that matches no data is answered with 404 "No data found
\* for export"; 500 "Export failed" is the answer only when fetching the
\* data failed.
C29_NoDataIs404 ==
    Exported =>
        LET data == _get_export_data(out.data_type, out.filters)
        IN  /\ data = ReturnValue(<<>>) =>
                out.status = 404 /\ out.detail = "No data found for export"
            /\ out.status = 500 => "raised" \in DOMAIN data

\* what holds instead: no data and a failed fetch are both answered with 500
\* "Export failed", and data with 200
ExportStatuses ==
    Exported =>
        LET data == _get_export_data(out.data_type, out.filters)
        IN  IF "raised" \in DOMAIN data \/ data = ReturnValue(<<>>)
            THEN out.status = 500 /\ out.detail = "Export failed"
            ELSE out.status = 200 /\ out.data = data.returned

(***************************************************************************)
(* The shapes and the order of the findings of detect_anomalies, under     *)
(* SpecEngine.                                                             *)
(***************************************************************************)
\* the place of a pattern type in the list
DetectorRank(pattern_type) ==
    CASE pattern_type = "mass_return_event"    -> 1
      [] pattern_type = "potential_fraud_ring" -> 2
      [] pattern_type = "product_return_abuse" -> 3
      [] OTHER                                 -> 0

\* C25: every pattern of detect_anomalies is a mass_return_event of severity
\* high about a customer who has returns, a potential_fraud_ring of severity
\* critical about a customer who has an order to the shared address, or a
\* product_return_abuse of severity high about "SYSTEM"; the list is the
\* findings of the mass, the ring and the product detector, in that order.
C25_ThreeShapesInOrder ==
    out.op = "detect_anomalies" =>
        /\ \A i \in DOMAIN out.patterns :
             LET p == out.patterns[i]
             IN  \/ /\ p.pattern_type = "mass_return_event"
                    /\ p.severity = "high"
                    /\ \E r \in DOMAIN returns : returns[r].customer_id = p.customer_id
                 \/ /\ p.pattern_type = "potential_fraud_ring"
                    /\ p.severity = "critical"
                    /\ \E o \in DOMAIN orders :
                         /\ orders[o].customer_id = p.customer_id
                         /\ orders[o].shipping_address = p.evidence.shared_address
                 \/ /\ p.pattern_type = "product_return_abuse"
                    /\ p.severity = "high"
                    /\ p.customer_id = "SYSTEM"
        /\ \A i, j \in DOMAIN out.patterns :
             i < j => DetectorRank(out.patterns[i].pattern_type)
                          <= DetectorRank(out.patterns[j].pattern_type)
        /\ out.patterns = _detect_mass_return_events
                              \o _detect_potential_fraud_rings
                              \o _detect_product_return_abuse

\* a list with a finding of each detector
C25_Witness ==
    /\ out.op = "detect_anomalies"
    /\ Len(out.patterns) >= 3
    /\ out.patterns[1].pattern_type = "mass_return_event"
    /\ \E i \in DOMAIN out.patterns :
          out.patterns[i].pattern_type = "potential_fraud_ring"
    /\ out.patterns[Len(out.patterns)].pattern_type = "product_return_abuse"

(***************************************************************************)
(* The signal bundle against its definitions: orders of c1 and c2, and     *)
(* returns of either with a suspicious reason or another, a refund of      *)
(* 25.00 or 100.00, dated at now - 30 days to the second or one second     *)
(* before.                                                                 *)
(***************************************************************************)
MaxSignalOrders == 2

MaxSignalReturns == 2

SignalNow == T0 + 31 * Day

SignalOrders(id) ==
    {Order(id, c, "delivered", T0, "a1", <<"p1">>) : c \in {"c1", "c2"}}

SignalReturns(id) ==
    {Return(id, 1, "c1", "p1", "changed_mind", SignalNow - 30 * Day, 2500, FALSE),
     Return(id, 1, "c1", "p1", "not_as_described", SignalNow - 30 * Day - 1, 10000,
            FALSE),
     Return(id, 1, "c1", "p1", "defective", SignalNow - 30 * Day - 1, 10000, FALSE),
     Return(id, 1, "c1", "p1", "defective", SignalNow - 30 * Day, 2500, FALSE),
     Return(id, 2, "c2", "p1", "changed_mind", SignalNow - Day, 2500, FALSE)}

InitSignals ==
    /\ orders = <<>>
    /\ returns = <<>>
    /\ customers = <<>>
    /\ refunds = <<>>
    /\ now = SignalNow
    /\ bundle = EmptyBundle
    /\ out = NoResult

NextSignals ==
    \/ /\ Len(orders) < MaxSignalOrders
       /\ \E o \in SignalOrders(Len(orders) + 1) : InsertOrder(o)
    \/ /\ Len(returns) < MaxSignalReturns
       /\ \E r \in SignalReturns(Len(returns) + 1) : InsertReturn(r)
    \/ \E c \in {"c1", "c2"} : CalculateFraudScore(c)

SpecSignals == InitSignals /\ [][NextSignals]_vars

\* the places in the collection of the records of customer c
RecordsOf(coll, c) == {i \in DOMAIN coll : coll[i].customer_id = c}

\* the refund amounts of the returns at the places S, added up
RECURSIVE RefundTotal(_)
RefundTotal(S) ==
    IF S = {} THEN 0
    ELSE LET i == CHOOSE x \in S : TRUE
         IN  returns[i].refund_amount + RefundTotal(S \ {i})

\* C24: for a customer with at least one order the bundle has return_rate =
\* returns / orders, recent_returns_30d = the returns dated now - 30 days or
\* later, avg_return_value = the mean refund amount of the returns (0 without
\* returns) and suspicious_reason_count = the returns whose reason is
\* changed_mind or not_as_described.
C24_SignalsAsDefined ==
    (Scored /\ RecordsOf(orders, out.customer_id) # {}) =>
        LET ords == RecordsOf(orders, out.customer_id)
            rets == RecordsOf(returns, out.customer_id)
        IN  /\ bundle # EmptyBundle
            /\ bundle.total_orders = Cardinality(ords)
            /\ bundle.total_returns = Cardinality(rets)
            /\ bundle.return_rate.n * Cardinality(ords)
                   = Cardinality(rets) * bundle.return_rate.d
            /\ bundle.recent_returns_30d
                   = Cardinality({i \in rets : returns[i].return_date >= now - 30 * Day})
            /\ bundle.avg_return_value.n * Cardinality(rets)
                   = RefundTotal(rets) * bundle.avg_return_value.d
            /\ rets = {} => bundle.avg_return_value.n = 0
            /\ bundle.suspicious_reason_count
                   = Cardinality({i \in rets :
                         returns[i].reason \in {"changed_mind", "not_as_described"}})

\* two returns of c1, one on the boundary of the 30 days and one a second
\* older, one of them with a suspicious reason, and different refunds
C24_Witness ==
    /\ Scored
    /\ out.customer_id = "c1"
    /\ bundle # EmptyBundle
    /\ bundle.total_returns = 2
    /\ bundle.recent_returns_30d = 1
    /\ bundle.suspicious_reason_count = 1
    /\ bundle.avg_return_value = Rat(12500, 2)
    /\ \E i \in DOMAIN returns : returns[i].return_date = now - 30 * Day

\* the triple of calculate_fraud_score in binary64, with the five points and
\* the sum before "min(100.0, score)" kept beside it
F64BandOf(score) ==
    IF F64Ge(score, F64OfInt(70)) THEN "critical"
    ELSE IF F64Ge(score, F64OfInt(50)) THEN "high"
    ELSE IF F64Ge(score, F64OfInt(25)) THEN "medium"
    ELSE "low"

F64ScoreOf(cd) ==
    LET points == F64Points(cd)
        raw    == F64Sum(points)
    IN  [points     |-> points,
         raw        |-> raw,
         score      |-> IF F64Gt(raw, F64OfInt(100)) THEN F64OfInt(100) ELSE raw,
         risk_level |-> F64BandOf(raw)]

(***************************************************************************)
(* Scoring in binary64: bundles of a customer with 7 or 10 orders          *)
(* whose returns have the refund amounts of one of the lists, in cents.    *)
(* The first list and the third add up to 7000.00 and to 3000.00, and      *)
(* their float mean is 999.9999999999999.                                  *)
(***************************************************************************)
MaxFloatRapid == 3

MaxFloatSuspicious == 5

FloatOrderCounts == {7, 10}

FloatReturnValues ==
    {<<10421, 96487, 207845, 123835, 27612, 20051, 213749>>,
     <<100000, 100000, 100000, 100000, 100000, 100000, 100000>>,
     <<183079, 105407, 11514>>,
     <<49999, 50001, 50001>>,
     <<50000>>,
     <<>>}

F64BundleOf(o, return_values, rec, rap, sus) ==
    [total_orders            |-> o,
     total_returns           |-> Len(return_values),
     return_values           |-> return_values,
     return_rate             |-> F64DivInt(Len(return_values), o),
     recent_returns_30d      |-> rec,
     avg_return_value        |-> F64AvgReturnValue(return_values),
     rapid_returns           |-> rap,
     suspicious_reason_count |-> sus]

\* the signals are kept as drawn; the two floats are computed by the action
InitFloat ==
    /\ orders = <<>>
    /\ returns = <<>>
    /\ customers = <<>>
    /\ refunds = <<>>
    /\ now = T0
    /\ out = NoResult
    /\ \E o \in FloatOrderCounts, return_values \in FloatReturnValues :
         \E rec \in {0, 5, 6, Len(return_values)} \cap (0..Len(return_values)),
            rap \in 0..MinOf(Len(return_values), MaxFloatRapid),
            sus \in 0..MinOf(Len(return_values), MaxFloatSuspicious) :
             bundle = [total_orders  |-> o, return_values |-> return_values,
                       recent_returns_30d |-> rec, rapid_returns |-> rap,
                       suspicious_reason_count |-> sus]

\* calculate_fraud_score on the bundle with these signals
ScoreFloat ==
    /\ out = NoResult
    /\ out' = [op |-> "calculate_fraud_score"] @@
              F64ScoreOf(F64BundleOf(bundle.total_orders, bundle.return_values,
                                     bundle.recent_returns_30d,
                                     bundle.rapid_returns,
                                     bundle.suspicious_reason_count))
    /\ UNCHANGED <<orders, returns, now, bundle, customers, refunds>>

NextFloat == ScoreFloat

SpecFloat == InitFloat /\ [][NextFloat]_vars

\* the caps of the five factors
FactorCaps == <<30, 25, 20, 15, 10>>

Saturated(i) == out.points[i] = F64OfInt(FactorCaps[i])

\* 20 less two units in the last place: the least x with 55.0 + x = 75.0
NearlyTwenty == [e |-> 4, m |-> <<1, 0, 0>> \o [i \in 1..49 |-> 1] \o <<0>>]

\* C27 as stated: the sum before the clamp is at most 100, the clamp leaves
\* it as it is, the band is the band of the returned score, and 100 is
\* reached exactly when all five factors are at their caps.
C27_HundredIffSaturated ==
    Scored =>
        /\ ~F64Gt(out.raw, F64OfInt(100))
        /\ out.score = out.raw
        /\ out.risk_level = F64BandOf(out.score)
        /\ out.score = F64OfInt(100) <=> \A i \in 1..5 : Saturated(i)

\* C27, the last part amended: 100 is reached whenever all five factors are
\* at their caps, and only when the rate, frequency, rapid and reason
\* factors are at their caps and the value factor is at 20 or at most two
\* units in the last place below it.
C27_HundredNearSaturated ==
    Scored =>
        /\ ~F64Gt(out.raw, F64OfInt(100))
        /\ out.score = out.raw
        /\ out.risk_level = F64BandOf(out.score)
        /\ (\A i \in 1..5 : Saturated(i)) => out.score = F64OfInt(100)
        /\ out.score = F64OfInt(100) =>
             /\ \A i \in {1, 2, 4, 5} : Saturated(i)
             /\ F64Ge(out.points[3], NearlyTwenty)

\* a score of 100.0 with the value factor below its cap
C27_Witness ==
    /\ Scored
    /\ out.score = F64OfInt(100)
    /\ F64Gt(F64OfInt(20), out.points[3])

=============================================================================
